---- MODULE Spec2Model ----
(***************************************************************************)
(* A model of the tech-news-curator pipeline (src/src):                    *)
(*   - ArticleProcessor.filter_duplicates, standardize_article,            *)
(*     TechNewsCurator.run and _scrape_all_sources, main()      (main.py)  *)
(*   - Summarizer.clean_text, summarize, _summarize_long_text,             *)
(*     summarize_articles and _format_summary_by_source                    *)
(*                                            (summarizer/summarizer.py)   *)
(*   - the listing loops, detail loops and selector cascades of the        *)
(*     scrapers                                           (scraper/*.py)   *)
(* Each part has its own specification over its own variables; the         *)
(* variables of the other parts stay at their idle values.                 *)
(* Strings are sequences of one-character strings where their characters   *)
(* matter (titles, links, summaries to format, texts to clean); the texts  *)
(* handed to the summarizer are records that carry what the code reads of  *)
(* them (word count, token count, the slice of the input they are, the     *)
(* parts they were joined from).                                           *)
(***************************************************************************)
EXTENDS Integers, Sequences, FiniteSets, TLC

VARIABLES
    \* ---- ArticleProcessor.filter_duplicates
    batch,            \* the standardized articles of the run (all sources)
    articles,         \* the argument of the current filter_duplicates call
    idx,              \* number of items the for loop has consumed
    seen_titles,      \* local set seen_titles
    seen_links,       \* local set seen_links
    unique_articles,  \* local list unique_articles
    dpc,              \* "loop" | "returned"
    ncalls,           \* completed filter_duplicates calls (1 or 2)
    first_out,        \* what the first call returned
    \* ---- Summarizer
    entry,            \* the method called from outside
    initialized,      \* summarizer_pipeline and tokenizer were loaded
    sbatch,           \* the argument of summarize_articles
    ai,               \* articles the loop of summarize_articles has consumed
    summaries,        \* local list summaries of summarize_articles
    errs,             \* per consumed article: the backend raised in its own
                      \* summarize call (not in a chunk or a nested call)
    spc,              \* "idle" | "loop" | "call" | "done" | "raised"
    stack,            \* the frames of summarize and _summarize_long_text
    ret,              \* what the frame popped last returned or raised
    last_call,        \* the arguments of the summarizer_pipeline call the
                      \* step just taken made, if it made one
    \* ---- TechNewsCurator.run, steps 2 to 4
    raw,              \* the items the scrapers returned, all sources together
    standardized_articles,  \* local list standardized_articles of run
    run_unique,       \* what filter_duplicates returned to run
    texts,            \* text_to_summarize of each article summarize_articles
                      \* has consumed
    rpc,              \* "idle" | "standardize" | "filter" | "summarize" |
                      \* "done" | "raised" | "caught"
    exc,              \* the exception in flight, or "none"
    \* ---- TechNewsCurator._scrape_all_sources
    scrapers,         \* self.scrapers: the source names, in dict order
    si,               \* sources the for loop has consumed
    results,          \* local dict results
    outcomes,         \* per consumed source: what its scrape call did
    gpc,              \* "idle" | "loop" | "returned"
    \* ---- one scrape(limit, fetch_content=True) call of a scraper
    scraper,          \* the scraper whose scrape runs
    listing,          \* local list articles (repos, papers): the listing
    articles_with_content,  \* local list articles_with_content
    fates,            \* per consumed item: what became of its detail fetch
    tpc,              \* "idle" | "listing" | "item" | "request" | "returned"
    requested,        \* a detail request was made in this call
    since,            \* the pauses made since the last detail request
    gap,              \* at a detail request: the pauses made since the one
                      \* before it
    \* ---- one call of Summarizer._format_summary_by_source
    fsource,          \* argument source
    ftitle,           \* argument title
    fsummary,         \* argument summary
    fout,             \* what the call returned
    fpc,              \* "idle" | "call" | "returned" | "raised"
    \* ---- the listing loop of one scrape(limit) or get_newest(limit) call
    lfn,              \* the function called
    limit,            \* argument limit
    page_rows,        \* the rows of the listing page: per row, whether it
                      \* has the title (and link) element
    todo,             \* the rows the for loop goes through
    pos,              \* rows the for loop has consumed
    scraped,          \* local list articles (repos): the rows appended
    lpc,              \* "idle" | "request" | "loop" | "after" | "returned"
    \* ---- one selector cascade
    cascade,          \* which cascade of the scrapers runs
    matches,          \* per candidate selector: what it matches in the page
    ck,               \* candidates evaluated and passed over
    chosen,           \* the element the cascade ends with
    kpc,              \* "idle" | "try" | "done"
    \* ---- main()
    env,              \* the environment variables: which of them are set
    logger_bound,     \* the module-level name logger is bound
    should_send_email,  \* config.should_send_email
    warnings,         \* the warnings logged so far
    mexc,             \* the exception that left main, or "none"
    mpc,              \* the statement of main (and of the constructor and
                      \* _validate_config) that runs next
    \* ---- Summarizer.clean_text, called on a text and then on its result
    cin,              \* the text
    cout1,            \* clean_text(text)
    cout2,            \* clean_text(clean_text(text))
    cpc               \* "idle" | "first" | "second" | "done"

dvars == <<batch, articles, idx, seen_titles, seen_links, unique_articles,
           dpc, ncalls, first_out>>

svars == <<entry, initialized, sbatch, ai, summaries, errs, spc, stack, ret,
           last_call>>

rvars == <<raw, standardized_articles, run_unique, texts, rpc, exc>>

gvars == <<scrapers, si, results, outcomes, gpc>>

tvars == <<scraper, listing, articles_with_content, fates, tpc, requested,
           since, gap>>

fvars == <<fsource, ftitle, fsummary, fout, fpc>>

lvars == <<lfn, limit, page_rows, todo, pos, scraped, lpc>>

kvars == <<cascade, matches, ck, chosen, kpc>>

mvars == <<env, logger_bound, should_send_email, warnings, mexc, mpc>>

cvars == <<cin, cout1, cout2, cpc>>

vars == <<dvars, svars, rvars, gvars, tvars, fvars, lvars, kvars, mvars, cvars>>

\* what a step of one part of the program leaves alone
notd == <<svars, rvars, gvars, tvars, fvars,
          lvars, kvars, mvars, cvars>>
nots == <<dvars, rvars, gvars, tvars, fvars,
          lvars, kvars, mvars, cvars>>
notr == <<dvars, svars, gvars, tvars, fvars,
          lvars, kvars, mvars, cvars>>
notg == <<dvars, svars, rvars, tvars, fvars,
          lvars, kvars, mvars, cvars>>
nott == <<dvars, svars, rvars, gvars, fvars,
          lvars, kvars, mvars, cvars>>
notf == <<dvars, svars, rvars, gvars, tvars,
          lvars, kvars, mvars, cvars>>
notl == <<dvars, svars, rvars, gvars, tvars,
          fvars, kvars, mvars, cvars>>
notk == <<dvars, svars, rvars, gvars, tvars,
          fvars, lvars, mvars, cvars>>
notm == <<dvars, svars, rvars, gvars, tvars,
          fvars, lvars, kvars, cvars>>
notc == <<dvars, svars, rvars, gvars, tvars,
          fvars, lvars, kvars, mvars>>

\* ---------------------------------------------------------------- bounds
MaxArticles == 3

\* ------------------------------------------------------- string helpers
Max(a, b) == IF a >= b THEN a ELSE b
Min(a, b) == IF a <= b THEN a ELSE b

Whitespace == {" ", "\n"}

\* str.lower() on one character
LowerChar(c) ==
    CASE c = "X" -> "x"
      [] c = "Y" -> "y"
      [] c = "A" -> "a"
      [] c = "B" -> "b"
      [] c = "N" -> "n"
      [] c = "T" -> "t"
      [] c = "C" -> "c"
      [] c = "D" -> "d"
      [] c = "E" -> "e"
      [] c = "G" -> "g"
      [] c = "H" -> "h"
      [] c = "P" -> "p"
      [] c = "R" -> "r"
      [] c = "S" -> "s"
      [] OTHER   -> c

\* str.lower()
lower(s) == [k \in DOMAIN s |-> LowerChar(s[k])]

RECURSIVE lstrip(_)
lstrip(s) ==
    IF s # <<>> /\ Head(s) \in Whitespace THEN lstrip(Tail(s)) ELSE s

RECURSIVE rstrip(_)
rstrip(s) ==
    IF s # <<>> /\ s[Len(s)] \in Whitespace
    THEN rstrip(SubSeq(s, 1, Len(s) - 1))
    ELSE s

\* str.strip()
strip(s) == rstrip(lstrip(s))

\* the summarizer is not running
NoRet == [raised |-> FALSE, set |-> FALSE]
NoCall == [site |-> "none"]

SummIdle ==
    /\ entry = "none"
    /\ initialized = FALSE
    /\ sbatch = <<>>
    /\ ai = 0
    /\ summaries = <<>>
    /\ errs = <<>>
    /\ spc = "idle"
    /\ stack = <<>>
    /\ ret = NoRet
    /\ last_call = NoCall

\* filter_duplicates is not running
DedupIdle ==
    /\ batch = <<>>
    /\ articles = <<>>
    /\ idx = 0
    /\ seen_titles = {}
    /\ seen_links = {}
    /\ unique_articles = <<>>
    /\ dpc = "idle"
    /\ ncalls = 0
    /\ first_out = <<>>

\* run is not running
RunIdle ==
    /\ raw = <<>>
    /\ standardized_articles = <<>>
    /\ run_unique = <<>>
    /\ texts = <<>>
    /\ rpc = "idle"
    /\ exc = "none"

\* _scrape_all_sources is not running
GatherIdle ==
    /\ scrapers = <<>>
    /\ si = 0
    /\ results = <<>>
    /\ outcomes = <<>>
    /\ gpc = "idle"

\* no request was made yet
NoGap == [prev |-> FALSE, pauses |-> <<>>]

\* no scrape is running
ScrapeIdle ==
    /\ scraper = "none"
    /\ listing = <<>>
    /\ articles_with_content = <<>>
    /\ fates = <<>>
    /\ tpc = "idle"
    /\ requested = FALSE
    /\ since = <<>>
    /\ gap = NoGap

\* _format_summary_by_source is not running
FormatIdle ==
    /\ fsource = <<>>
    /\ ftitle = <<>>
    /\ fsummary = <<>>
    /\ fout = <<>>
    /\ fpc = "idle"

\* no listing loop is running
LimitIdle ==
    /\ lfn = "none"
    /\ limit = 0
    /\ page_rows = <<>>
    /\ todo = <<>>
    /\ pos = 0
    /\ scraped = <<>>
    /\ lpc = "idle"

\* no selector cascade is running
CascadeIdle ==
    /\ cascade = "none"
    /\ matches = <<>>
    /\ ck = 0
    /\ chosen = [from |-> "nothing"]
    /\ kpc = "idle"

\* main is not running
MainIdle ==
    /\ env = {}
    /\ logger_bound = FALSE
    /\ should_send_email = FALSE
    /\ warnings = <<>>
    /\ mexc = "none"
    /\ mpc = "idle"

\* clean_text is not running
CleanIdle ==
    /\ cin = <<>>
    /\ cout1 = <<>>
    /\ cout2 = <<>>
    /\ cpc = "idle"

\* the scrapers' loops, main and clean_text are not running
RestIdle == LimitIdle /\ CascadeIdle /\ MainIdle /\ CleanIdle

\* the pipeline from the scrape calls to the formatted summaries is not
\* running
PipelineIdle ==
    /\ DedupIdle /\ SummIdle /\ RunIdle /\ GatherIdle /\ ScrapeIdle
    /\ FormatIdle

\* ------------------------------------------------- the inputs of dedup
Titles == { <<"X">>, <<"x">>, <<"y">>, <<"y", " ">> }
Links  == { <<>>, <<" ">>, <<"a">>, <<"b">>, <<"A">> }

\* A standardized article; "original" stands for the rest of the record and
\* tells apart two items with the same title and link.
Article(t, l, o) == [title |-> t, link |-> l, original |-> o]

\* the batch run() hands to filter_duplicates: n articles, in order
Batch(n, ts, ls) == [k \in 1..n |-> Article(ts[k], ls[k], k)]

\* -------------------------------------------------- filter_duplicates
title_fingerprint_nostrip(article) == lower(article.title)
title_fingerprint(article) == strip(lower(article.title))

link_fingerprint(article) == strip(article.link)

\* the condition of the `continue`
IsDuplicateAnd(article, st, sl) ==
    /\ title_fingerprint(article) \in st
    /\ link_fingerprint(article) # <<>>
    /\ link_fingerprint(article) \in sl
IsDuplicate(article, st, sl) ==
    \/ title_fingerprint(article) \in st
    \/ (link_fingerprint(article) # <<>> /\ link_fingerprint(article) \in sl)

\* list.append
prepend(list, item) == <<item>> \o list
append(list, item) == Append(list, item)

DedupInit ==
    /\ \E n \in 0..MaxArticles :
         \E ts \in [1..n -> Titles], ls \in [1..n -> Links] :
            batch = Batch(n, ts, ls)
    /\ articles = batch
    /\ idx = 0
    /\ seen_titles = {}
    /\ seen_links = {}
    /\ unique_articles = <<>>
    /\ dpc = "loop"
    /\ ncalls = 0
    /\ first_out = <<>>
    /\ SummIdle /\ RunIdle /\ GatherIdle /\ ScrapeIdle /\ FormatIdle
    /\ RestIdle

\* one iteration of the for loop whose item is skipped
SkipDuplicate ==
    /\ dpc = "loop" /\ idx < Len(articles)
    /\ IsDuplicate(articles[idx + 1], seen_titles, seen_links)
    /\ idx' = idx + 1
    /\ UNCHANGED <<batch, articles, seen_titles, seen_links, unique_articles,
                   dpc, ncalls, first_out>>
    /\ UNCHANGED notd

\* one iteration of the for loop whose item is kept
KeepUnique ==
    /\ dpc = "loop" /\ idx < Len(articles)
    /\ LET article == articles[idx + 1] IN
         /\ ~IsDuplicate(article, seen_titles, seen_links)
         /\ seen_titles' = seen_titles \cup {title_fingerprint(article)}
         /\ seen_links' = IF link_fingerprint(article) # <<>>
                          THEN seen_links \cup {link_fingerprint(article)}
                          ELSE seen_links
         /\ unique_articles' = append(unique_articles, article)
    /\ idx' = idx + 1
    /\ UNCHANGED <<batch, articles, dpc, ncalls, first_out>>
    /\ UNCHANGED notd

\* return unique_articles
FilterReturn ==
    /\ dpc = "loop" /\ idx = Len(articles)
    /\ dpc' = "returned"
    /\ ncalls' = ncalls + 1
    /\ first_out' = IF ncalls = 0 THEN unique_articles ELSE first_out
    /\ UNCHANGED <<batch, articles, idx, seen_titles, seen_links,
                   unique_articles>>
    /\ UNCHANGED notd

\* filter_duplicates applied to its own result
FilterAgain ==
    /\ dpc = "returned" /\ ncalls = 1
    /\ articles' = unique_articles
    /\ idx' = 0
    /\ seen_titles' = {}
    /\ seen_links' = {}
    /\ unique_articles' = <<>>
    /\ dpc' = "loop"
    /\ UNCHANGED <<batch, ncalls, first_out>>
    /\ UNCHANGED notd

DedupNext == SkipDuplicate \/ KeepUnique \/ FilterReturn \/ FilterAgain

SpecDedup == DedupInit /\ [][DedupNext]_vars

\* ------------------------------------------------ claims on the dedup
\* s is a subsequence of t: s is t with some items left out
RECURSIVE IsSubsequence(_, _)
IsSubsequence(s, t) ==
    IF s = <<>> THEN TRUE
    ELSE IF t = <<>> THEN FALSE
    ELSE IF Head(s) = Head(t) THEN IsSubsequence(Tail(s), Tail(t))
    ELSE IsSubsequence(s, Tail(t))

ExampleBatch ==
    << Article(<<"X">>, <<"a">>, 1), Article(<<"x">>, <<"b">>, 2) >>

\* C1: filter_duplicates starts with both sets empty; an item is dropped iff
\* its lower-cased, trimmed title is in seen_titles or its trimmed link is
\* non-empty and in seen_links; a dropped item changes neither set nor the
\* result; a kept item is appended and its title fingerprint (and its link
\* fingerprint when non-empty) recorded; the example batch [X/a, x/b] yields
\* exactly its first item.
C1_DropIff ==
    /\ [](idx = 0 => seen_titles = {} /\ seen_links = {} /\ unique_articles = <<>>)
    /\ [][ idx' = idx + 1 =>
            LET a  == articles[idx + 1]
                tf == strip(lower(a.title))
                lf == strip(a.link)
            IN  IF tf \in seen_titles \/ (lf # <<>> /\ lf \in seen_links)
                THEN /\ unique_articles' = unique_articles
                     /\ seen_titles' = seen_titles
                     /\ seen_links' = seen_links
                ELSE /\ unique_articles' = Append(unique_articles, a)
                     /\ seen_titles' = seen_titles \cup {tf}
                     /\ seen_links' = IF lf # <<>> THEN seen_links \cup {lf}
                                      ELSE seen_links ]_vars
    /\ [](dpc = "returned" /\ articles = ExampleBatch
            => unique_articles = <<ExampleBatch[1]>>)

\* the example batch was filtered, and so was a batch one of whose items was
\* dropped for its link alone
C1_Witness ==
    /\ dpc = "returned" /\ ncalls = 1
    /\ \/ batch = ExampleBatch
       \/ /\ Len(batch) = 2 /\ Len(unique_articles) = 1
          /\ strip(lower(batch[1].title)) # strip(lower(batch[2].title))

\* C2 as stated: survivors differ pairwise in case-folded, trimmed title, and
\* either link is empty or the case-folded, trimmed links differ.
C2_FingerprintLaw_CaseFoldedLinks ==
    dpc = "returned" =>
        \A i, j \in 1..Len(unique_articles) :
            i < j =>
                LET a == unique_articles[i]
                    b == unique_articles[j]
                IN  /\ strip(lower(a.title)) # strip(lower(b.title))
                    /\ \/ a.link = <<>>
                       \/ b.link = <<>>
                       \/ strip(lower(a.link)) # strip(lower(b.link))

\* C2 amended: survivors differ pairwise in case-folded, trimmed title, and
\* either trimmed link is empty or the trimmed links (case kept) differ.
C2_FingerprintLaw ==
    dpc = "returned" =>
        \A i, j \in 1..Len(unique_articles) :
            i < j =>
                LET a == unique_articles[i]
                    b == unique_articles[j]
                IN  /\ strip(lower(a.title)) # strip(lower(b.title))
                    /\ \/ strip(a.link) = <<>>
                       \/ strip(b.link) = <<>>
                       \/ strip(a.link) # strip(b.link)

\* two survivors with non-empty links, and an item of the batch dropped
C2_Witness ==
    /\ dpc = "returned" /\ ncalls = 1
    /\ Len(unique_articles) = 2 /\ Len(batch) = 3
    /\ strip(unique_articles[1].link) # <<>>
    /\ strip(unique_articles[2].link) # <<>>

\* C3: filter_duplicates applied to its own result returns that result.
C3_Idempotent ==
    (dpc = "returned" /\ ncalls = 2) => unique_articles = first_out

\* the second call has returned, on a result that kept two items of three
C3_Witness ==
    /\ dpc = "returned" /\ ncalls = 2
    /\ Len(batch) = 3 /\ Len(first_out) = 2

\* C4: the result is a subsequence of the input, in the input's order, and the
\* first item of a non-empty input is kept.
C4_Subsequence ==
    /\ IsSubsequence(unique_articles, articles)
    /\ (dpc = "returned" /\ articles # <<>>)
          => (unique_articles # <<>> /\ unique_articles[1] = articles[1])

\* the middle item of three was dropped
C4_Witness ==
    /\ dpc = "returned" /\ ncalls = 1 /\ Len(batch) = 3
    /\ unique_articles = <<batch[1], batch[3]>>

\* =================================================================
\* Summarizer (src/src/summarizer/summarizer.py)
\* =================================================================

\* ---------------------------------------------------------------- bounds
MaxWords == 1100       \* every text of up to MaxWords words is summarized
MaxTokPerWord == 3     \* tokens the tokenizer makes of one word, at most
MaxBatch == 2          \* longest batch handed to summarize_articles
MaxDepth == 3          \* nested summarize calls before the interpreter's
                       \* recursion limit raises

\* ------------------------------------------------- program constants
ChunkThreshold == 1000     \* if input_length > 1000
chunk_size == 800          \* chunk_size: int = 800
max_model_tokens == 1024   \* max_model_tokens = 1024
TruncMargin == 50          \* [:max_model_tokens-50]
SpecialTokens == 2         \* <s> and </s>, which the tokenizer adds

\* ------------------------------------------------------------- texts
\* A text is what the code reads of it: its kind, its word count n
\* (len(text.split())), the slice [lo, hi) of the words of the text it was
\* cut or made from, and the texts it was joined from.
Text(kind, n, lo, hi, parts) ==
    [kind |-> kind, n |-> n, lo |-> lo, hi |-> hi, parts |-> parts]

\* text_to_summarize of an article, cleaned: n words
ArticleText(n) == Text("article", n, 0, n, <<>>)

\* ' '.join(words[i:j]) for the words of a text of n words
Slice(n, i, j) == Text("slice", Min(j, n) - Min(i, n), Min(i, n), Min(j, n), <<>>)

\* summary[0]['summary_text'].strip() for the text `of`, w words long
Generated(of, w) == Text("generated", w, of.lo, of.hi, <<>>)

\* sentences[0] + '.', sentences = chunk.split('.'): the words before the
\* first '.' of the chunk, d of them (all of them when it holds no '.')
FirstSentence(chunk, d) == Text("first_sentence", d, chunk.lo, chunk.hi, <<>>)

RECURSIVE SumWords(_)
SumWords(ts) == IF ts = <<>> THEN 0 ELSE Head(ts).n + SumWords(Tail(ts))

\* " ".join(chunk_summaries)
JoinReversed(ts) ==
    Text("joined", SumWords(ts), 0, SumWords(ts),
         [k \in 1..Len(ts) |-> ts[Len(ts) + 1 - k]])
Join(ts) == Text("joined", SumWords(ts), 0, SumWords(ts), ts)

\* the fixed strings
NotInitialized ==
    Text("Summary unavailable: local summarizer not initialized", 6, 0, 0, <<>>)
NoContent == Text("No content available for summarization.", 5, 0, 0, <<>>)
CouldNotGenerate == Text("Could not generate summary.", 4, 0, 0, <<>>)
\* f"Summary unavailable: {str(e)}"
Unavailable(e) == Text("Summary unavailable: <reason>", 3, 0, 0, <<e>>)

\* ------------------------------------------------------ the tokenizer
\* len(tokens["input_ids"][0]) for a text of n words of k tokens each
TokenCount(n, k) == n * k + SpecialTokens

\* the words of decode(input_ids[:max_model_tokens-50]): the first token is
\* <s>, the others are whole words and perhaps the beginning of one more
TruncatedWords(n, k) ==
    Min(n, (max_model_tokens - TruncMargin - 1 + k - 1) \div k)

\* the tokens of that decoded text
TruncatedTokens == max_model_tokens - TruncMargin - 1 + SpecialTokens

\* ------------------------------------------------- the length budget
\* lines 116-131: <<max_length, min_length>> for input_length words
BucketsInclusive(input_length) ==
    IF input_length <= 30 THEN
        LET m == Max(10, Min(input_length - 1, 25)) IN <<m, Max(5, m \div 2)>>
    ELSE IF input_length <= 100 THEN
        LET m == Min((input_length * 3) \div 5, 50) IN <<m, Max(20, m \div 2)>>
    ELSE IF input_length <= 300 THEN
        LET m == Min((input_length * 3) \div 10, 90) IN <<m, Max(40, m \div 2)>>
    ELSE
        LET m == Min(120, input_length \div 4) IN <<m, Max(60, m \div 2)>>
Buckets(input_length) ==
    IF input_length < 30 THEN
        LET m == Max(10, Min(input_length - 1, 25)) IN <<m, Max(5, m \div 2)>>
    ELSE IF input_length < 100 THEN
        LET m == Min((input_length * 3) \div 5, 50) IN <<m, Max(20, m \div 2)>>
    ELSE IF input_length < 300 THEN
        LET m == Min((input_length * 3) \div 10, 90) IN <<m, Max(40, m \div 2)>>
    ELSE
        LET m == Min(120, input_length \div 4) IN <<m, Max(60, m \div 2)>>

\* lines 138-141
Clamp(lengths, input_length) ==
    IF lengths[1] >= input_length
    THEN LET m == Max(input_length - 1, 5) IN <<m, Max(3, m \div 2)>>
    ELSE lengths

\* lines 190-191: the lengths for a chunk
ChunkLengths(chunk) ==
    LET m == Min(100, chunk.n \div 3) IN <<m, Max(50, m \div 2)>>

\* ------------------------------------------- the summarization backend
\* the word counts a generated summary may have
GenWords(max_length) == {0, Max(1, max_length)}

\* the arguments of a summarizer_pipeline call
PipelineCall(site, text, tokens, lengths, n0) ==
    [site |-> site, words |-> text.n, tokens |-> tokens,
     max_length |-> lengths[1], min_length |-> lengths[2], n0 |-> n0]

\* ------------------------------------------------------------ chunking
\* lines 179-181: for i in range(0, len(words), chunk_size)
RECURSIVE ChunksFromOverlapping(_, _, _)
ChunksFromOverlapping(n, i, size) ==
    IF i >= n THEN <<>>
    ELSE <<Slice(n, i, i + size + 1)>> \o ChunksFromOverlapping(n, i + size, size)
RECURSIVE ChunksFrom(_, _, _)
ChunksFrom(n, i, size) ==
    IF i >= n THEN <<>>
    ELSE <<Slice(n, i, i + size)>> \o ChunksFrom(n, i + size, size)

\* ---------------------------------------------------------- frames
SummarizeFrame(text) ==
    [fn |-> "summarize", pc |-> "start", text |-> text, n0 |-> text.n,
     input_length |-> text.n, token_count |-> 0, lengths |-> <<0, 0>>]

LongFrame(text) ==
    [fn |-> "_summarize_long_text", pc |-> "split", text |-> text,
     chunks |-> <<>>, ci |-> 0, chunk_summaries |-> <<>>, meta_calls |-> 0]

Top == stack[Len(stack)]
Depth == Cardinality({k \in 1..Len(stack) : stack[k].fn = "summarize"})

\* the top frame moves on
Step(frame) == [stack EXCEPT ![Len(stack)] = frame]
\* the top frame calls
Call(frame, callee) == Append(Step(frame), callee)
\* the top frame returns or raises
Pop == SubSeq(stack, 1, Len(stack) - 1)
Returns(v) == [raised |-> FALSE, set |-> TRUE, val |-> v]
Raises(e) == [raised |-> TRUE, set |-> TRUE, val |-> e]

InSummarize(pc) ==
    /\ stack # <<>> /\ Top.fn = "summarize" /\ Top.pc = pc
InLong(pc) ==
    /\ stack # <<>> /\ Top.fn = "_summarize_long_text" /\ Top.pc = pc

\* ------------------------------------------------ summarize_articles
Sources == {"Hacker News"}
\* longer texts: two and three full chunks, and one word more
LongWords == {2 * chunk_size, 2 * chunk_size + 1,
              3 * chunk_size, 3 * chunk_size + 1}
\* the texts of the articles of a batch of several
BatchWords == {0, 7, ChunkThreshold}

\* an article handed to summarize_articles; words: the words of its title
\* and content (text_to_summarize, cleaned)
SArticle(i, source, n) ==
    [title |-> i, link |-> i, source |-> source, date |-> "2024-01-01",
     words |-> n]

\* lines 289-335, as far as the word count decides: an empty summary yields
\* the "No summary available" sentence, any other the summary reformatted
_format_summary_by_source(source, summary, title) ==
    IF summary.n = 0
    THEN [kind |-> "No summary available for this <source> content.",
          source |-> source]
    ELSE [kind |-> "formatted", source |-> source, summary |-> summary,
          title |-> title]

\* lines 266-272
DigestEntryWithoutDate(article, generated_summary) ==
    [title |-> article.title,
     summary |-> _format_summary_by_source(article.source, generated_summary,
                                           article.title),
     link |-> article.link, source |-> article.source]
DigestEntry(article, generated_summary) ==
    [title |-> article.title,
     summary |-> _format_summary_by_source(article.source, generated_summary,
                                           article.title),
     link |-> article.link, source |-> article.source, date |-> article.date]

SummInit ==
    /\ DedupIdle /\ RunIdle /\ GatherIdle /\ ScrapeIdle /\ FormatIdle
    /\ RestIdle
    /\ initialized \in BOOLEAN
    /\ ai = 0
    /\ summaries = <<>>
    /\ errs = <<>>
    /\ ret = NoRet
    /\ last_call = NoCall
    /\ \/ /\ entry = "summarize_articles"
          /\ spc = "loop"
          /\ stack = <<>>
          /\ \/ sbatch = <<>>
             \/ \E n \in (0..MaxWords) \cup LongWords, s \in Sources :
                    sbatch = <<SArticle(1, s, n)>>
             \/ \E len \in 2..MaxBatch :
                  \E ws \in [1..len -> BatchWords], ss \in [1..len -> Sources] :
                    sbatch = [k \in 1..len |-> SArticle(k, ss[k], ws[k])]
       \/ /\ entry = "_summarize_long_text"
          /\ spc = "call"
          /\ sbatch = <<>>
          /\ \E n \in 0..ChunkThreshold :
                stack = <<LongFrame(ArticleText(n))>>

\* the backend raised in the summarize call of the article being processed
MarkErr ==
    IF entry = "summarize_articles" /\ Depth = 1
    THEN [errs EXCEPT ![Len(errs)] = TRUE]
    ELSE errs

\* lines 234-236: if not articles: return []
A_Empty ==
    /\ spc = "loop" /\ sbatch = <<>>
    /\ spc' = "done"
    /\ last_call' = NoCall
    /\ UNCHANGED <<entry, initialized, sbatch, ai, summaries, errs, stack,
                   ret>>
    /\ UNCHANGED nots

\* lines 239-257: generated_summary = self.summarize(text_to_summarize)
A_Call ==
    /\ spc = "loop" /\ ai < Len(sbatch)
    /\ stack' = <<SummarizeFrame(ArticleText(sbatch[ai + 1].words))>>
    /\ errs' = Append(errs, FALSE)
    /\ spc' = "call"
    /\ last_call' = NoCall
    /\ UNCHANGED <<entry, initialized, sbatch, ai, summaries, ret>>
    /\ UNCHANGED nots

\* lines 259-272, and 274-275 after the last article
A_Entry ==
    /\ spc = "call" /\ entry = "summarize_articles"
    /\ stack = <<>> /\ ret.set /\ ~ret.raised
    /\ summaries' = append(summaries, DigestEntry(sbatch[ai + 1], ret.val))
    /\ ai' = ai + 1
    /\ spc' = IF ai + 1 = Len(sbatch) THEN "done" ELSE "loop"
    /\ ret' = NoRet
    /\ last_call' = NoCall
    /\ UNCHANGED <<entry, initialized, sbatch, errs, stack>>
    /\ UNCHANGED nots

\* summarize raised: nothing in summarize_articles catches it
A_Raised ==
    /\ spc = "call" /\ entry = "summarize_articles"
    /\ stack = <<>> /\ ret.set /\ ret.raised
    /\ spc' = "raised"
    /\ last_call' = NoCall
    /\ UNCHANGED <<entry, initialized, sbatch, ai, summaries, errs, stack,
                   ret>>
    /\ UNCHANGED nots

\* _summarize_long_text, called from outside, has returned
LongEntryReturned ==
    /\ spc = "call" /\ entry = "_summarize_long_text"
    /\ stack = <<>> /\ ret.set
    /\ spc' = "done"
    /\ last_call' = NoCall
    /\ UNCHANGED <<entry, initialized, sbatch, ai, summaries, errs, stack,
                   ret>>
    /\ UNCHANGED nots

\* --------------------------------------------------------- summarize
\* lines 84-86
S_NotInitialized ==
    /\ InSummarize("start") /\ ~initialized
    /\ stack' = Pop
    /\ ret' = Returns(NotInitialized)
    /\ last_call' = NoCall
    /\ UNCHANGED <<entry, initialized, sbatch, ai, summaries, errs, spc>>
    /\ UNCHANGED nots

\* lines 89-91
S_NoContentTokenized ==
    /\ InSummarize("start") /\ initialized /\ Top.text.n = 0
    /\ stack' = Step([Top EXCEPT !.pc = "generate",
                                 !.token_count = TokenCount(0, 1),
                                 !.lengths = Clamp(Buckets(0), 0)])
    /\ last_call' = NoCall
    /\ UNCHANGED <<entry, initialized, sbatch, ai, summaries, errs, spc, ret>>
    /\ UNCHANGED nots
S_NoContent ==
    /\ InSummarize("start") /\ initialized /\ Top.text.n = 0
    /\ stack' = Pop
    /\ ret' = Returns(NoContent)
    /\ last_call' = NoCall
    /\ UNCHANGED <<entry, initialized, sbatch, ai, summaries, errs, spc>>
    /\ UNCHANGED nots

\* lines 97-99: return self._summarize_long_text(cleaned_text)
S_Long ==
    /\ InSummarize("start") /\ initialized
    /\ Top.input_length > ChunkThreshold
    /\ stack' = Call([Top EXCEPT !.pc = "await_long"], LongFrame(Top.text))
    /\ last_call' = NoCall
    /\ UNCHANGED <<entry, initialized, sbatch, ai, summaries, errs, spc, ret>>
    /\ UNCHANGED nots

\* line 99, the callee has returned
S_LongReturned ==
    /\ InSummarize("await_long") /\ ret.set
    /\ stack' = Pop
    /\ ret' = ret
    /\ last_call' = NoCall
    /\ UNCHANGED <<entry, initialized, sbatch, ai, summaries, errs, spc>>
    /\ UNCHANGED nots

\* lines 102-141: the tokenizer answers; an input over the context budget is
\* cut and its words counted again; the lengths are chosen and clamped
S_Tokenize ==
    /\ InSummarize("start") /\ initialized
    /\ Top.input_length >= 1 /\ Top.input_length <= ChunkThreshold
    /\ \E k \in 1..MaxTokPerWord :
         LET n  == Top.input_length
             tc == TokenCount(n, k)
             cut == tc > max_model_tokens
             n1 == IF cut THEN TruncatedWords(n, k) ELSE n
             t1 == IF cut THEN Text("truncated", n1, 0, n1, <<>>) ELSE Top.text
         IN stack' = Step([Top EXCEPT
                !.pc = "generate",
                !.text = t1,
                !.input_length = n1,
                !.token_count = IF cut THEN TruncatedTokens ELSE tc,
                !.lengths = Clamp(Buckets(n1), n1)])
    /\ last_call' = NoCall
    /\ UNCHANGED <<entry, initialized, sbatch, ai, summaries, errs, spc, ret>>
    /\ UNCHANGED nots

\* lines 102-112 are outside the try: what the tokenizer raises leaves
\* summarize
S_TokenizerRaises ==
    /\ InSummarize("start") /\ initialized
    /\ Top.input_length >= 1 /\ Top.input_length <= ChunkThreshold
    /\ stack' = Pop
    /\ ret' = Raises("tokenizer")
    /\ errs' = MarkErr
    /\ last_call' = NoCall
    /\ UNCHANGED <<entry, initialized, sbatch, ai, summaries, spc>>
    /\ UNCHANGED nots

\* lines 143-158: the pipeline answers and its summary is returned (the '.'
\* appended to a summary without final punctuation adds no word to it)
S_Generate ==
    /\ InSummarize("generate")
    /\ last_call' = PipelineCall("summarize", Top.text, Top.token_count,
                                 Top.lengths, Top.n0)
    /\ \E w \in GenWords(Top.lengths[1]) :
         ret' = Returns(Generated(Top.text, w))
    /\ stack' = Pop
    /\ UNCHANGED <<entry, initialized, sbatch, ai, summaries, errs, spc>>
    /\ UNCHANGED nots

\* lines 160-162: the pipeline raised
S_GenerateRaises ==
    /\ InSummarize("generate")
    /\ last_call' = PipelineCall("summarize", Top.text, Top.token_count,
                                 Top.lengths, Top.n0)
    /\ ret' = Returns(Unavailable("generation"))
    /\ errs' = MarkErr
    /\ stack' = Pop
    /\ UNCHANGED <<entry, initialized, sbatch, ai, summaries, spc>>
    /\ UNCHANGED nots

\* ----------------------------------------------- _summarize_long_text
\* lines 175-183
L_Split ==
    /\ InLong("split")
    /\ LET chunks == ChunksFrom(Top.text.n, 0, chunk_size) IN
         stack' = Step([Top EXCEPT
                !.chunks = chunks,
                !.pc = IF chunks = <<>> THEN "combine" ELSE "chunk"])
    /\ last_call' = NoCall
    /\ UNCHANGED <<entry, initialized, sbatch, ai, summaries, errs, spc, ret>>
    /\ UNCHANGED nots

\* chunk_summaries after the pipeline summarized a chunk (line 201)
AfterChunkSummary(chunk_summaries, chunk, w) ==
    append(chunk_summaries, Generated(chunk, w))

\* chunk_summaries after the pipeline raised on a chunk (lines 205-206)
AfterChunkFailureDropped(chunk_summaries, chunk, d) == chunk_summaries
AfterChunkFailure(chunk_summaries, chunk, d) ==
    append(chunk_summaries, FirstSentence(chunk, d))

\* the next chunk of the loop, or what follows the loop
NextChunk(frame, chunk_summaries) ==
    [frame EXCEPT
        !.chunk_summaries = chunk_summaries,
        !.ci = frame.ci + 1,
        !.pc = IF frame.ci + 1 = Len(frame.chunks) THEN "combine" ELSE "chunk"]

\* lines 187-201: the pipeline summarizes the chunk
L_ChunkSummarized ==
    /\ InLong("chunk") /\ initialized
    /\ LET chunk == Top.chunks[Top.ci + 1] IN
         /\ \E k \in 1..MaxTokPerWord :
              last_call' = PipelineCall("chunk", chunk, TokenCount(chunk.n, k),
                                        ChunkLengths(chunk), Top.text.n)
         /\ \E w \in GenWords(ChunkLengths(chunk)[1]) :
              stack' = Step(NextChunk(Top,
                          AfterChunkSummary(Top.chunk_summaries, chunk, w)))
    /\ UNCHANGED <<entry, initialized, sbatch, ai, summaries, errs, spc, ret>>
    /\ UNCHANGED nots

\* lines 202-206: the pipeline raised (it always does when it was not
\* loaded); the first sentence of the chunk stands in
L_ChunkFallback ==
    /\ InLong("chunk")
    /\ LET chunk == Top.chunks[Top.ci + 1] IN
         /\ \E k \in 1..MaxTokPerWord :
              last_call' = PipelineCall("chunk", chunk, TokenCount(chunk.n, k),
                                        ChunkLengths(chunk), Top.text.n)
         /\ \E d \in {1, chunk.n} :
              stack' = Step(NextChunk(Top,
                          AfterChunkFailure(Top.chunk_summaries, chunk, d)))
    /\ UNCHANGED <<entry, initialized, sbatch, ai, summaries, errs, spc, ret>>
    /\ UNCHANGED nots

\* the argument of the recursive call of line 214
MetaInput(chunk_summaries) == Join(chunk_summaries)

\* lines 209-214: return self.summarize(combined_summary); at the
\* interpreter's recursion limit the call raises instead
L_MetaCall ==
    /\ InLong("combine") /\ Len(Top.chunk_summaries) > 1
    /\ LET frame == [Top EXCEPT !.pc = "await_meta",
                                !.meta_calls = Top.meta_calls + 1]
       IN IF Depth < MaxDepth
          THEN /\ stack' = Call(frame,
                                SummarizeFrame(MetaInput(Top.chunk_summaries)))
               /\ ret' = ret
          ELSE /\ stack' = Step(frame)
               /\ ret' = Raises("RecursionError")
    /\ last_call' = NoCall
    /\ UNCHANGED <<entry, initialized, sbatch, ai, summaries, errs, spc>>
    /\ UNCHANGED nots

\* what _summarize_long_text returns when the recursive call raised
\* (lines 215-217)
MetaFallback(chunk_summaries) == Join(chunk_summaries)

\* line 214: the recursive call returned
L_MetaReturned ==
    /\ InLong("await_meta") /\ ret.set /\ ~ret.raised
    /\ stack' = Pop
    /\ ret' = ret
    /\ last_call' = NoCall
    /\ UNCHANGED <<entry, initialized, sbatch, ai, summaries, errs, spc>>
    /\ UNCHANGED nots

\* lines 215-217: the recursive call raised
L_MetaFailed ==
    /\ InLong("await_meta") /\ ret.set /\ ret.raised
    /\ stack' = Pop
    /\ ret' = Returns(MetaFallback(Top.chunk_summaries))
    /\ last_call' = NoCall
    /\ UNCHANGED <<entry, initialized, sbatch, ai, summaries, errs, spc>>
    /\ UNCHANGED nots

\* lines 218-219
L_SingleChunk ==
    /\ InLong("combine") /\ Len(Top.chunk_summaries) = 1
    /\ stack' = Pop
    /\ ret' = Returns(Top.chunk_summaries[1])
    /\ last_call' = NoCall
    /\ UNCHANGED <<entry, initialized, sbatch, ai, summaries, errs, spc>>
    /\ UNCHANGED nots

\* lines 220-221
L_NoChunks ==
    /\ InLong("combine") /\ Len(Top.chunk_summaries) = 0
    /\ stack' = Pop
    /\ ret' = Returns(CouldNotGenerate)
    /\ last_call' = NoCall
    /\ UNCHANGED <<entry, initialized, sbatch, ai, summaries, errs, spc>>
    /\ UNCHANGED nots

SummNext ==
    \/ A_Empty \/ A_Call \/ A_Entry \/ A_Raised \/ LongEntryReturned
    \/ S_NotInitialized \/ S_NoContent \/ S_Long \/ S_LongReturned
    \/ S_Tokenize \/ S_TokenizerRaises \/ S_Generate \/ S_GenerateRaises
    \/ L_Split \/ L_ChunkSummarized \/ L_ChunkFallback
    \/ L_MetaCall \/ L_MetaReturned \/ L_MetaFailed
    \/ L_SingleChunk \/ L_NoChunks

SpecSumm == SummInit /\ [][SummNext]_vars

\* --------------------------------------------- claims on the summarizer
\* the frames of _summarize_long_text on the stack
LongFrames == {k \in 1..Len(stack) : stack[k].fn = "_summarize_long_text"}

\* C5 as stated: in every call into the generation step, max_length is less
\* than the token count of the text passed.
C5_MaxLengthBelowTokens ==
    last_call.site # "none" => last_call.max_length < last_call.tokens

\* the length-budget table of the design, with the clamp
RefLengths(n) ==
    LET b == CASE n < 30  -> <<Max(10, Min(n - 1, 25)), 5>>
               [] n >= 30 /\ n < 100  -> <<Min((3 * n) \div 5, 50), 20>>
               [] n >= 100 /\ n < 300 -> <<Min((3 * n) \div 10, 90), 40>>
               [] OTHER -> <<Min(120, n \div 4), 60>>
        l == <<b[1], Max(b[2], b[1] \div 2)>>
    IN  IF l[1] >= n
        THEN <<Max(n - 1, 5), Max(3, Max(n - 1, 5) \div 2)>>
        ELSE l

\* C6 as stated: the lengths summarize passes to generation are the reference
\* function of the word count of the cleaned input.
C6_LengthsOfCleanedInput ==
    last_call.site = "summarize" =>
        <<last_call.max_length, last_call.min_length>> = RefLengths(last_call.n0)

\* C6 amended: the lengths summarize passes to generation are the reference
\* function of the word count of the text it passes, which is the cleaned
\* input, or what is left of it after the cut to the context budget.
C6_LengthsOfPassedText ==
    last_call.site = "summarize" =>
        /\ <<last_call.max_length, last_call.min_length>>
             = RefLengths(last_call.words)
        /\ last_call.words <= last_call.n0
        /\ last_call.words < last_call.n0 => last_call.words < 974

\* summarize passed a text that was cut to the context budget, still in the
\* bucket of 300 words and more
C6_Witness ==
    /\ last_call.site = "summarize"
    /\ last_call.words < last_call.n0
    /\ last_call.words >= 300

\* C7: a text of more than 1000 words is split into contiguous chunks that
\* do not overlap: all but the last of 800 words, the last of 1 to 800, the
\* first starting at the first word, each starting where the one before it
\* ends, the last ending at the last word.
C7_Chunks ==
    \A f \in LongFrames :
        (stack[f].pc # "split" /\ stack[f].text.n > 1000) =>
            LET c == stack[f].chunks
                m == Len(c)
            IN  /\ m >= 2
                /\ \A j \in 1..m : c[j].n = c[j].hi - c[j].lo
                /\ \A j \in 1..(m - 1) : c[j].n = 800 /\ c[j + 1].lo = c[j].hi
                /\ c[m].n >= 1 /\ c[m].n <= 800
                /\ c[1].lo = 0
                /\ c[m].hi = stack[f].text.n

\* a text of 1601 words was split: three chunks, the last of one word
C7_Witness ==
    \E f \in LongFrames :
        /\ stack[f].text.n = 1601
        /\ Len(stack[f].chunks) = 3
        /\ stack[f].chunks[3].n = 1

\* C8: with more than one chunk summary, summarize is called once on the
\* summaries joined in chunk order, and its result returned, or the joined
\* summaries when it raised; a single chunk summary is returned as it is, with
\* no call; with none, "Could not generate summary." is returned.
C8_Recombination ==
    /\ [](\A f \in LongFrames :
            /\ stack[f].meta_calls <= 1
            /\ stack[f].pc = "await_meta" <=> stack[f].meta_calls = 1)
    /\ [][ (stack # <<>> /\ Top.fn = "_summarize_long_text"
              /\ Top.pc \in {"combine", "await_meta"}) =>
           LET cs == Top.chunk_summaries
               joined == Text("joined", SumWords(cs), 0, SumWords(cs), cs)
               back == SubSeq(stack, 1, Len(stack) - 1)
           IN  IF Top.pc = "combine" /\ Len(cs) > 1 THEN
                   \/ /\ Len(stack') = Len(stack) + 1
                      /\ stack'[Len(stack')].fn = "summarize"
                      /\ stack'[Len(stack')].pc = "start"
                      /\ stack'[Len(stack')].text = joined
                      /\ stack'[Len(stack)].pc = "await_meta"
                      /\ stack'[Len(stack)].chunk_summaries = cs
                   \/ /\ Depth = MaxDepth
                      /\ Len(stack') = Len(stack)
                      /\ stack'[Len(stack)].pc = "await_meta"
                      /\ stack'[Len(stack)].chunk_summaries = cs
                      /\ ret'.raised
               ELSE IF Top.pc = "combine" /\ Len(cs) = 1 THEN
                   stack' = back /\ ret' = Returns(cs[1])
               ELSE IF Top.pc = "combine" THEN
                   stack' = back /\ ret' = Returns(CouldNotGenerate)
               ELSE IF ret.raised THEN
                   stack' = back /\ ret' = Returns(joined)
               ELSE
                   stack' = back /\ ret' = ret /\ ret.set ]_vars

\* _summarize_long_text returned the joined summaries of its two chunks,
\* the recursive call having raised
C8_Witness ==
    /\ entry = "_summarize_long_text" /\ spc = "done"
    /\ ~ret.raised /\ ret.val.kind = "joined"
    /\ Len(ret.val.parts) = 2
    /\ ret.val.parts[1].hi = ret.val.parts[2].lo

\* C9: _summarize_long_text collects one summary per chunk, in chunk order,
\* each the pipeline's summary of the chunk or, when the pipeline raised, the
\* first sentence of that chunk; the loop goes on after a failure and the
\* failure raises nothing.
C9_ChunkFallback ==
    /\ [](\A f \in LongFrames :
            LET fr == stack[f] IN
            /\ Len(fr.chunk_summaries) = fr.ci
            /\ fr.pc \in {"combine", "await_meta"} => fr.ci = Len(fr.chunks)
            /\ \A j \in 1..Len(fr.chunk_summaries) :
                 /\ fr.chunk_summaries[j].lo = fr.chunks[j].lo
                 /\ fr.chunk_summaries[j].hi = fr.chunks[j].hi
                 /\ fr.chunk_summaries[j].kind \in {"generated", "first_sentence"}
                 /\ fr.chunk_summaries[j].kind = "first_sentence" =>
                      /\ fr.chunk_summaries[j].n >= 1
                      /\ fr.chunk_summaries[j].n <= fr.chunks[j].n
                 /\ ~initialized => fr.chunk_summaries[j].kind = "first_sentence")
    /\ [][ (stack # <<>> /\ Top.fn = "_summarize_long_text" /\ Top.pc = "chunk") =>
             /\ Len(stack') = Len(stack)
             /\ stack'[Len(stack)].ci = Top.ci + 1
             /\ SubSeq(stack'[Len(stack)].chunk_summaries, 1, Top.ci)
                  = Top.chunk_summaries
             /\ ret' = ret ]_vars

\* the pipeline raised on the first of two chunks and summarized the second
C9_Witness ==
    \E f \in LongFrames :
        /\ stack[f].pc = "combine"
        /\ Len(stack[f].chunks) = 2
        /\ stack[f].chunk_summaries[1].kind = "first_sentence"
        /\ stack[f].chunk_summaries[2].kind = "generated"

\* C10 as stated: whatever the backend raises while an article is summarized,
\* nothing leaves summarize_articles, every article gets its entry, and the
\* entry of an article whose summarize call met the failure carries the
\* "Summary unavailable: <reason>" placeholder.
C10_NothingEscapes ==
    entry = "summarize_articles" =>
        /\ spc # "raised"
        /\ spc = "done" =>
             /\ Len(summaries) = Len(sbatch)
             /\ \A i \in 1..Len(summaries) :
                  errs[i] =>
                    /\ summaries[i].summary.kind = "formatted"
                    /\ summaries[i].summary.summary.kind
                         = "Summary unavailable: <reason>"

\* C21: summarize_articles makes one entry per article, in the order of the
\* batch, each with exactly the fields title, summary, link, source and date,
\* the four other than summary being those of the article; when it returns
\* there are as many entries as articles (none for an empty batch), and the
\* batch it was given is never changed.
C21_OneEntryPerArticle ==
    /\ [](entry = "summarize_articles" =>
            /\ Len(summaries) = ai
            /\ ai <= Len(sbatch)
            /\ \A i \in 1..Len(summaries) :
                 /\ DOMAIN summaries[i] =
                      {"title", "summary", "link", "source", "date"}
                 /\ summaries[i].title = sbatch[i].title
                 /\ summaries[i].link = sbatch[i].link
                 /\ summaries[i].source = sbatch[i].source
                 /\ summaries[i].date = sbatch[i].date
            /\ spc = "done" => Len(summaries) = Len(sbatch))
    /\ [][sbatch' = sbatch]_vars

\* summarize_articles returned the entries of a batch of two different
\* articles
C21_Witness ==
    /\ entry = "summarize_articles" /\ spc = "done"
    /\ Len(sbatch) = 2 /\ Len(summaries) = 2
    /\ sbatch[1].words # sbatch[2].words

\* C22 as stated: a summarize call whose cleaned text is empty returns "No
\* content available for summarization." as its next step, without a call of
\* the tokenizer or of the pipeline.
C22_EmptyTextNoContent ==
    [][(InSummarize("start") /\ Top.text.n = 0) =>
          /\ stack' = Pop
          /\ ret' = Returns(NoContent)
          /\ last_call' = NoCall]_vars

\* C22, amended: a summarize call whose cleaned text is empty returns as its
\* next step, without a call of the tokenizer or of the pipeline: "No
\* content available for summarization." when the summarizer was
\* initialized, and "Summary unavailable: local summarizer not initialized"
\* when it was not (line 84 is tested before the text is cleaned).
C22_EmptyTextShortCircuits ==
    [][(InSummarize("start") /\ Top.text.n = 0) =>
          /\ stack' = Pop
          /\ ret' = Returns(IF initialized THEN NoContent ELSE NotInitialized)
          /\ last_call' = NoCall]_vars

\* summarize has returned the sentinel for the empty text of an article
C22_Witness ==
    /\ entry = "summarize_articles" /\ spc = "call" /\ stack = <<>>
    /\ sbatch[ai + 1].words = 0
    /\ ret = Returns(NoContent)

\* C23 as stated: no call into the generation step, direct or for a chunk, is
\* handed a text of more than max_model_tokens tokens; a text over the
\* budget has been cut to max_model_tokens - 50 tokens before.
C23_WithinContextBudget ==
    last_call.site # "none" => last_call.tokens <= max_model_tokens

\* C25 as stated: in every call into the generation step, direct or for a
\* chunk, min_length is at most max_length.
C25_MinAtMostMax ==
    last_call.site # "none" => last_call.min_length <= last_call.max_length

\* C26: a _summarize_long_text call made by summarize has a text of more
\* than ChunkThreshold words, splits it into at least two chunks and has one
\* summary per chunk after its loop; its next step after the loop is the
\* recursive summarize call on the joined chunk summaries (which the
\* interpreter's recursion limit may refuse), never the return of the single
\* chunk summary or of "Could not generate summary.".
C26_AtLeastTwoChunks ==
    /\ [](\A f \in LongFrames :
            f > 1 =>
              /\ stack[f - 1].fn = "summarize"
              /\ stack[f].text.n > ChunkThreshold
              /\ stack[f].pc # "split" => Len(stack[f].chunks) >= 2
              /\ stack[f].pc \in {"combine", "await_meta"} =>
                   Len(stack[f].chunk_summaries) = Len(stack[f].chunks))
    /\ [](entry = "summarize_articles" /\ ret.set /\ ~ret.raised
            => ret.val # CouldNotGenerate)
    /\ [][(InLong("combine") /\ Len(stack) > 1) =>
            \/ /\ Len(stack') = Len(stack) + 1
               /\ stack'[Len(stack')].fn = "summarize"
               /\ stack'[Len(stack')].text = Join(Top.chunk_summaries)
            \/ ret' = Raises("RecursionError")]_vars

\* summarize delegated a text of two chunks and one word, and the recursive
\* call on the three chunk summaries is running
C26_Witness ==
    /\ Len(stack) = 3
    /\ stack[1].fn = "summarize" /\ stack[1].n0 = 2 * chunk_size + 1
    /\ Len(stack[2].chunks) = 3
    /\ stack[3].fn = "summarize"
    /\ stack[3].text = Join(stack[2].chunk_summaries)

\* C12 as stated: the chain summarize -> _summarize_long_text -> summarize
\* is finite because it converges: a nested summarize call whose text is
\* again over the chunking threshold is made on fewer words than the text its
\* caller split into chunks, also when the first sentence of each chunk
\* stands in for its summary and the chunks hold no '.', and the chain never
\* runs into the interpreter's recursion limit.
C12_RecursionConverges ==
    /\ \A f \in LongFrames :
         (/\ f < Len(stack)
          /\ stack[f + 1].fn = "summarize"
          /\ stack[f + 1].n0 > ChunkThreshold)
            => stack[f + 1].n0 < stack[f].text.n
    /\ ~(ret.set /\ ret.raised /\ ret.val = "RecursionError")

\* =================================================================
\* TechNewsCurator.run, steps 2 to 4 (src/src/main.py)
\* =================================================================

\* ---------------------------------------------------------------- bounds
MaxRaw == 2            \* most items the scrapers return in one run

\* ------------------------------------------- the values of a dict key
\* the key is not in the dict
Absent == [tag |-> "absent", s |-> <<>>]
\* the key holds None
None == [tag |-> "None", s |-> <<>>]
\* the key holds the string s
Str(s) == [tag |-> "str", s |-> s]

\* dict.get(key, default)
get(v, default) == IF v.tag = "absent" THEN default ELSE v

\* the truth value of v in an `if`
truthy(v) == v.tag = "str" /\ v.s # <<>>

\* "No Title"
NoTitle == <<"N", "o", " ", "T", "i", "t", "l", "e">>

\* datetime.now().strftime("%Y-%m-%d") on the day of the run
Today == <<"2", "0", "2", "4", "-", "0", "5", "-", "0", "2">>
\* a date a scraper found for an item
Published == <<"2", "0", "2", "4", "-", "0", "4", "-", "3", "0">>

\* the text of a fetched page, and the excerpt the scraper keeps of it in
\* the summary key (content[:500] + "...")
FullContent == <<"f", "u", "l", "l", " ", "b", "o", "d", "y">>
ExcerptOfContent == <<"f", "u", "l", "l", ".", ".", ".">>

\* ----------------------------------------------- the items of a run
RawTitles == {Absent, None, Str(<<>>), Str(<<"x">>)}
RawLinks == {Absent, None, Str(<<"a">>)}
RawDates == {Absent, None, Str(Published)}
\* <<content, summary>>: the detail fetch failed, or it found the page
RawBodies == { <<Str(<<>>), Str(<<>>)>>,
               <<Str(FullContent), Str(ExcerptOfContent)>> }

RawItem(t, l, d, b) ==
    [title |-> t, link |-> l, url |-> Absent, date |-> d,
     content |-> b[1], summary |-> b[2]]

\* ------------------------------------------------ standardize_article
\* lines 105-112: the default of a key is used when the key is absent
standardize_article(article, source) ==
    [title |-> get(article.title, Str(NoTitle)),
     link |-> get(article.link, get(article.url, Str(<<>>))),
     source |-> source,
     date |-> get(article.date, Str(Today)),
     summary |-> get(article.summary, Str(<<>>)),
     original |-> article]

\* ------------------------------------ filter_duplicates, as run calls it
\* lines 130-131 raise on an article: None has no lower() and no strip()
FingerprintRaises(article) ==
    article.title.tag # "str" \/ article.link.tag # "str"

\* the strings of an article whose title and link are strings
Plain(article) == [title |-> article.title.s, link |-> article.link.s]

\* lines 129-140 from item i on, st and sl being the sets seen so far
RECURSIVE FilterFrom(_, _, _, _)
FilterFrom(as, i, st, sl) ==
    IF i > Len(as) THEN <<>>
    ELSE LET a == Plain(as[i]) IN
         IF IsDuplicate(a, st, sl)
         THEN FilterFrom(as, i + 1, st, sl)
         ELSE <<as[i]>> \o
              FilterFrom(as, i + 1, st \cup {title_fingerprint(a)},
                         IF link_fingerprint(a) # <<>>
                         THEN sl \cup {link_fingerprint(a)} ELSE sl)

\* the items filter_duplicates consumes before one makes it raise
RECURSIVE FirstRaising(_, _)
FirstRaising(as, i) ==
    IF i > Len(as) THEN 0
    ELSE IF FingerprintRaises(as[i]) THEN i
    ELSE FirstRaising(as, i + 1)

\* ---------------------------- summarize_articles, lines 243-254
\* text_to_summarize of an article: the title, then the content when the
\* article has a content key that is not empty, or else its summary
text_to_summarize(article) ==
    LET title == IF "title" \in DOMAIN article THEN article.title
                 ELSE Str(<<>>)
        from == IF "content" \in DOMAIN article /\ truthy(article.content)
                    THEN "content"
                ELSE IF "summary" \in DOMAIN article /\ truthy(article.summary)
                    THEN "summary"
                ELSE "none"
        body == IF from = "content" THEN article.content.s
                ELSE IF from = "summary" THEN article.summary.s
                ELSE <<>>
    IN  [raised |-> title.tag # "str" /\ from # "none",   \* None += str
         title |-> title,
         from |-> from,
         text |-> IF from = "none" THEN title.s
                  ELSE title.s \o <<"\n", "\n">> \o body]

\* ------------------------------------------------------------- run
RunInit ==
    /\ DedupIdle /\ SummIdle /\ GatherIdle /\ ScrapeIdle /\ FormatIdle
    /\ RestIdle
    /\ \E n \in 0..MaxRaw :
         \E ts \in [1..n -> RawTitles], ls \in [1..n -> RawLinks],
            ds \in [1..n -> RawDates], bs \in [1..n -> RawBodies] :
            raw = [k \in 1..n |-> RawItem(ts[k], ls[k], ds[k], bs[k])]
    /\ standardized_articles = <<>>
    /\ run_unique = <<>>
    /\ texts = <<>>
    /\ rpc = "standardize"
    /\ exc = "none"

\* lines 182-186: one item is standardized and appended
R_Standardize ==
    /\ rpc = "standardize"
    /\ Len(standardized_articles) < Len(raw)
    /\ standardized_articles' =
         append(standardized_articles,
                standardize_article(raw[Len(standardized_articles) + 1],
                                    "Hacker News"))
    /\ UNCHANGED <<raw, run_unique, texts, rpc, exc>>
    /\ UNCHANGED notr

\* line 189: filter_duplicates returns
R_Filter ==
    /\ rpc = "standardize"
    /\ Len(standardized_articles) = Len(raw)
    /\ FirstRaising(standardized_articles, 1) = 0
    /\ run_unique' = FilterFrom(standardized_articles, 1, {}, {})
    /\ rpc' = "summarize"
    /\ UNCHANGED <<raw, standardized_articles, texts, exc>>
    /\ UNCHANGED notr

\* line 189: filter_duplicates raises at line 130 or 131
R_FilterRaises ==
    /\ rpc = "standardize"
    /\ Len(standardized_articles) = Len(raw)
    /\ FirstRaising(standardized_articles, 1) # 0
    /\ exc' = "AttributeError"
    /\ rpc' = "raised"
    /\ UNCHANGED <<raw, standardized_articles, run_unique, texts>>
    /\ UNCHANGED notr

\* line 194, one article of summarize_articles: its text is put together
\* and handed to summarize
R_Summarize ==
    /\ rpc = "summarize"
    /\ Len(texts) < Len(run_unique)
    /\ LET t == text_to_summarize(run_unique[Len(texts) + 1]) IN
         /\ ~t.raised
         /\ texts' = append(texts, t)
    /\ UNCHANGED <<raw, standardized_articles, run_unique, rpc, exc>>
    /\ UNCHANGED notr

\* line 194: summarize_articles returned
R_Summarized ==
    /\ rpc = "summarize"
    /\ Len(texts) = Len(run_unique)
    /\ rpc' = "done"
    /\ UNCHANGED <<raw, standardized_articles, run_unique, texts, exc>>
    /\ UNCHANGED notr

\* lines 215-216: run logs what was raised and returns; no digest is made
R_Caught ==
    /\ rpc = "raised"
    /\ rpc' = "caught"
    /\ UNCHANGED <<raw, standardized_articles, run_unique, texts, exc>>
    /\ UNCHANGED notr

RunNext ==
    \/ R_Standardize \/ R_Filter \/ R_FilterRaises
    \/ R_Summarize \/ R_Summarized \/ R_Caught

SpecRun == RunInit /\ [][RunNext]_vars

\* ------------------------------------------------- claims on the run
\* C11 as stated: whatever keys of an item are absent, None or empty,
\* standardize_article, filter_duplicates and summarize_articles raise
\* nothing, and every item of the run reaches summarize with a text.
C11_NeverRaises ==
    /\ exc = "none"
    /\ rpc \notin {"raised", "caught"}
    /\ rpc = "done" => Len(texts) = Len(run_unique)

\* C19 as stated: every article standardize_article produced has a title
\* that is a non-empty string and a date that is a string, whatever the
\* item's title and date keys held (absent, None or empty).
C19_TitleAndDatePresent ==
    \A i \in 1..Len(standardized_articles) :
        /\ truthy(standardized_articles[i].title)
        /\ standardized_articles[i].date.tag = "str"
        /\ standardized_articles[i].date.s # <<>>

\* C20 as stated: for every item of the run whose detail fetch found a
\* non-empty content, the standardized article carries that content and
\* the text handed to summarize is the title followed by that content.
C20_FullContentSummarized ==
    \A i \in 1..Len(texts) :
        truthy(run_unique[i].original.content) =>
            /\ "content" \in DOMAIN run_unique[i]
            /\ texts[i].from = "content"
            /\ texts[i].text =
                 texts[i].title.s \o <<"\n", "\n">>
                     \o run_unique[i].original.content.s

\* =================================================================
\* TechNewsCurator._scrape_all_sources (src/src/main.py)
\* =================================================================

\* ---------------------------------------------------------------- bounds
MaxListed == 2         \* articles_per_source: most items a scrape returns

\* get_all_scrapers: the configured sources, in the order of the dict
ConfiguredSources == <<"Hacker News", "Reddit", "Dev.to", "GitHub Trending">>

\* the ways the request for a listing page fails
ListingFailures == {"status", "timeout", "transport"}

\* an item of the listing of a source
Listed(source, k) == [source |-> source, k |-> k]

\* what scrape returns when the listing held n items
ScrapedList(source, n) == [k \in 1..n |-> Listed(source, k)]

\* results after results[source_name] = value
SetResult(res, source_name, value) ==
    [k \in DOMAIN res \cup {source_name} |->
        IF k = source_name THEN value ELSE res[k]]

\* results after the except clause of lines 243-245
ExceptResultNoEntry(res, source_name) == res
ExceptResult(res, source_name) == SetResult(res, source_name, <<>>)

\* a dict with no key
EmptyDict == [k \in {} |-> <<>>]

GatherInit ==
    /\ DedupIdle /\ SummIdle /\ RunIdle /\ ScrapeIdle /\ FormatIdle
    /\ RestIdle
    /\ scrapers = ConfiguredSources
    /\ si = 0
    /\ results = EmptyDict
    /\ outcomes = <<>>
    /\ gpc = "loop"

\* lines 235-241: scrape fetched the listing and returns its items
G_Scraped ==
    /\ gpc = "loop" /\ si < Len(scrapers)
    /\ \E n \in 0..MaxListed :
         LET source_name == scrapers[si + 1]
             value == ScrapedList(source_name, n)
         IN /\ results' = SetResult(results, source_name, value)
            /\ outcomes' = append(outcomes, [how |-> "returned", val |-> value])
    /\ si' = si + 1
    /\ UNCHANGED <<scrapers, gpc>>
    /\ UNCHANGED notg

\* lines 235-241: the request for the listing failed, and scrape returns []
\* (hacker_news_scraper.py lines 43-45 and 127-129)
G_ListingFailed ==
    /\ gpc = "loop" /\ si < Len(scrapers)
    /\ \E failure \in ListingFailures :
         LET source_name == scrapers[si + 1] IN
            /\ results' = SetResult(results, source_name, <<>>)
            /\ outcomes' = append(outcomes, [how |-> failure, val |-> <<>>])
    /\ si' = si + 1
    /\ UNCHANGED <<scrapers, gpc>>
    /\ UNCHANGED notg

\* lines 243-245: scrape raised
G_ScrapeRaises ==
    /\ gpc = "loop" /\ si < Len(scrapers)
    /\ LET source_name == scrapers[si + 1] IN
         /\ results' = ExceptResult(results, source_name)
         /\ outcomes' = append(outcomes, [how |-> "raised", val |-> <<>>])
    /\ si' = si + 1
    /\ UNCHANGED <<scrapers, gpc>>
    /\ UNCHANGED notg

\* line 247
G_Return ==
    /\ gpc = "loop" /\ si = Len(scrapers)
    /\ gpc' = "returned"
    /\ UNCHANGED <<scrapers, si, results, outcomes>>
    /\ UNCHANGED notg

GatherNext == G_Scraped \/ G_ListingFailed \/ G_ScrapeRaises \/ G_Return

SpecGather == GatherInit /\ [][GatherNext]_vars

MaxItems == 2          \* limit: most items scrape takes from the listing

\* the scrapers whose scrape fetches a detail page per item
DetailScrapers == {"Hacker News", "Reddit", "GitHub Trending", "arXiv"}

\* the ways a detail request fails: a status other than 200, a timeout,
\* any other exception raised under the try of the fetch
DetailFailures == {"status", "timeout", "exception"}

\* time.sleep(random.uniform(lo, hi)), in tenths of a second
PreFetchPause == <<2, 8>>       \* uniform(0.2, 0.8), before the request
HackerNewsPause == <<5, 15>>    \* uniform(0.5, 1.5)
RedditPause == <<5, 15>>        \* uniform(0.5, 1.5)
GitHubPause == <<7, 20>>        \* uniform(0.7, 2.0)
ArxivPause == <<5, 10>>         \* uniform(0.5, 1.0)

\* the pause scrape makes after the detail fetch of an item returned
PauseAfter(s) ==
    CASE s = "Hacker News"     -> HackerNewsPause
      [] s = "Reddit"          -> RedditPause
      [] s = "GitHub Trending" -> GitHubPause
      [] OTHER                 -> ArxivPause

\* the fetch method of the scraper pauses before its request
PausesBeforeRequest(s) == s \in {"Hacker News", "Reddit"}

\* a pause of d tenths of a second drawn from the interval
Pause(interval, d) == [lo |-> interval[1], hi |-> interval[2], d |-> d]

\* the kinds of item a listing of the scraper holds: "page" links to a web
\* page, "file" to a .pdf or the like, "self" is a Reddit self post, "none"
\* a paper without an id
ItemKinds(s) ==
    CASE s = "Hacker News"     -> {"page", "file"}
      [] s = "Reddit"          -> {"page", "file", "self"}
      [] s = "GitHub Trending" -> {"page"}
      [] OTHER                 -> {"page", "none"}

\* the item the listing step makes (a key that is not set holds "<absent>")
ListingItem(s, k, kind) ==
    [id |-> k, source |-> s, link |-> kind,
     content |-> CASE s = "arXiv" -> "abstract"
                   [] s = "Reddit" /\ kind = "self" -> "selftext"
                   [] s = "Reddit" -> ""
                   [] OTHER -> "<absent>",
     summary |-> CASE s = "arXiv" -> "abstract"
                   [] s = "Reddit" /\ kind = "self" -> "selftext excerpt"
                   [] s = "Reddit" -> ""
                   [] OTHER -> "<absent>"]

\* scrape calls the fetch method for the item
HasDetailStep(item) == ~(item.source = "Reddit" /\ item.link = "self")

\* the fetch method returns before it makes a request
ReturnsEarly(item) == item.link \in {"file", "none"}

\* what the fetch method returns when it returns without content
WithoutContentLinkLost(item) ==
    [item EXCEPT !.content = "", !.summary = "", !.link = ""]
WithoutContent(item) ==
    IF item.source = "Hacker News"
    THEN [item EXCEPT !.content = "", !.summary = ""]
    ELSE item

\* what the fetch method returns when the page was fetched and parsed
WithContent(item) ==
    [item EXCEPT !.content = "fetched", !.summary = "fetched excerpt"]

\* the pauses made since the last request, after the pause of the scrape
\* loop that follows the fetch of an item
AfterFetchNoPauseOnFailure(s, pauses, fate, d) ==
    IF fate \in DetailFailures THEN pauses
    ELSE Append(pauses, Pause(PauseAfter(s), d))
AfterFetch(s, pauses, fate, d) == Append(pauses, Pause(PauseAfter(s), d))

ScrapeInit ==
    /\ DedupIdle /\ SummIdle /\ RunIdle /\ GatherIdle /\ FormatIdle
    /\ RestIdle
    /\ scraper \in DetailScrapers
    /\ listing = <<>>
    /\ articles_with_content = <<>>
    /\ fates = <<>>
    /\ tpc = "listing"
    /\ requested = FALSE
    /\ since = <<>>
    /\ gap = NoGap

\* the request for the listing fails: scrape returns []
T_ListingFailed ==
    /\ tpc = "listing"
    /\ tpc' = "returned"
    /\ UNCHANGED <<scraper, listing, articles_with_content, fates,
                   requested, since, gap>>
    /\ UNCHANGED nott

\* the listing is fetched and parsed: at most limit items
T_Listing ==
    /\ tpc = "listing"
    /\ \E n \in 0..MaxItems :
         \E kinds \in [1..n -> ItemKinds(scraper)] :
            listing' = [k \in 1..n |-> ListingItem(scraper, k, kinds[k])]
    /\ tpc' = "item"
    /\ UNCHANGED <<scraper, articles_with_content, fates, requested, since,
                   gap>>
    /\ UNCHANGED nott

\* the item of the loop
Item == listing[Len(articles_with_content) + 1]

\* an item scrape appends as it is (reddit_scraper.py lines 119-120)
T_NoDetail ==
    /\ tpc = "item" /\ Len(articles_with_content) < Len(listing)
    /\ ~HasDetailStep(Item)
    /\ articles_with_content' = append(articles_with_content, Item)
    /\ fates' = append(fates, "no detail step")
    /\ UNCHANGED <<scraper, listing, tpc, requested, since, gap>>
    /\ UNCHANGED nott

\* the fetch method returns before its request; scrape appends the item and
\* pauses
T_Early ==
    /\ tpc = "item" /\ Len(articles_with_content) < Len(listing)
    /\ HasDetailStep(Item) /\ ReturnsEarly(Item)
    /\ articles_with_content' =
         append(articles_with_content, WithoutContent(Item))
    /\ fates' = append(fates, "no request")
    /\ \E d \in {PauseAfter(scraper)[1], PauseAfter(scraper)[2]} :
         since' = AfterFetch(scraper, since, "no request", d)
    /\ UNCHANGED <<scraper, listing, tpc, requested, gap>>
    /\ UNCHANGED nott

\* the fetch method pauses before its request (hacker_news_scraper.py line
\* 227, reddit_scraper.py line 149)
T_PauseBeforeRequest ==
    /\ tpc = "item" /\ Len(articles_with_content) < Len(listing)
    /\ HasDetailStep(Item) /\ ~ReturnsEarly(Item)
    /\ PausesBeforeRequest(scraper)
    /\ \E d \in {PreFetchPause[1], PreFetchPause[2]} :
         since' = Append(since, Pause(PreFetchPause, d))
    /\ tpc' = "request"
    /\ UNCHANGED <<scraper, listing, articles_with_content, fates, requested,
                   gap>>
    /\ UNCHANGED nott

\* the detail request is made; it fails or brings the page; the fetch method
\* returns, scrape appends what it returned and pauses
T_Request ==
    /\ Len(articles_with_content) < Len(listing)
    /\ \/ tpc = "request"
       \/ /\ tpc = "item" /\ ~PausesBeforeRequest(scraper)
          /\ HasDetailStep(Item) /\ ~ReturnsEarly(Item)
    /\ gap' = [prev |-> requested, pauses |-> since]
    /\ requested' = TRUE
    /\ \E fate \in DetailFailures \cup {"fetched"} :
         /\ fates' = append(fates, fate)
         /\ articles_with_content' =
              append(articles_with_content,
                     IF fate = "fetched" THEN WithContent(Item)
                     ELSE WithoutContent(Item))
         /\ \E d \in {PauseAfter(scraper)[1], PauseAfter(scraper)[2]} :
              since' = AfterFetch(scraper, <<>>, fate, d)
    /\ tpc' = "item"
    /\ UNCHANGED <<scraper, listing>>
    /\ UNCHANGED nott

\* return articles_with_content
T_Return ==
    /\ tpc = "item" /\ Len(articles_with_content) = Len(listing)
    /\ tpc' = "returned"
    /\ UNCHANGED <<scraper, listing, articles_with_content, fates,
                   requested, since, gap>>
    /\ UNCHANGED nott

ScrapeNext ==
    \/ T_ListingFailed \/ T_Listing \/ T_NoDetail \/ T_Early
    \/ T_PauseBeforeRequest \/ T_Request \/ T_Return

SpecScrape == ScrapeInit /\ [][ScrapeNext]_vars

\* ------------------------------------------------ claims on scrape
\* C14 as stated: scrape returns one item per item of the listing, in the
\* order of the listing, whatever detail fetches fail; an item whose detail
\* fetch failed has its listing fields unchanged and its content empty or
\* absent.
C14_FailedItemsWithoutContent ==
    /\ Len(articles_with_content) <= Len(listing)
    /\ tpc = "returned" => Len(articles_with_content) = Len(listing)
    /\ \A i \in 1..Len(articles_with_content) :
         /\ articles_with_content[i].id = listing[i].id
         /\ fates[i] \in DetailFailures =>
              /\ articles_with_content[i].source = listing[i].source
              /\ articles_with_content[i].link = listing[i].link
              /\ articles_with_content[i].content \in {"", "<absent>"}

\* C14 amended: scrape returns one item per item of the listing, in the
\* order of the listing, whatever detail fetches fail; an item whose detail
\* fetch failed is the item of the listing, to which Hacker News adds an
\* empty content and an empty summary; so its content is empty or absent,
\* except for an arXiv paper, whose content stays the abstract the listing
\* gave it.
C14_FailedItemsAsListed ==
    /\ Len(articles_with_content) <= Len(listing)
    /\ tpc = "returned" => Len(articles_with_content) = Len(listing)
    /\ \A i \in 1..Len(articles_with_content) :
         /\ articles_with_content[i].id = listing[i].id
         /\ fates[i] \in DetailFailures =>
              /\ articles_with_content[i].source = listing[i].source
              /\ articles_with_content[i].link = listing[i].link
              /\ IF scraper = "Hacker News"
                 THEN /\ articles_with_content[i].content = ""
                      /\ articles_with_content[i].summary = ""
                 ELSE articles_with_content[i] = listing[i]
              /\ IF scraper = "arXiv"
                 THEN articles_with_content[i].content = "abstract"
                 ELSE articles_with_content[i].content \in {"", "<absent>"}

\* scrape returned two items: the detail fetch of the first failed, that of
\* the second brought its page
C14_Witness ==
    /\ tpc = "returned"
    /\ Len(articles_with_content) = 2
    /\ fates[1] \in DetailFailures
    /\ fates[2] = "fetched"
    /\ articles_with_content[2].content = "fetched"

\* C15: between two successive detail requests of a scrape call there is at
\* least one pause, of a duration drawn from an interval that lies within
\* [0.2 s, 2.0 s], also when the earlier of the two requests failed.
C15_PauseBetweenRequests ==
    gap.prev =>
        \E k \in 1..Len(gap.pauses) :
            /\ 2 <= gap.pauses[k].lo
            /\ gap.pauses[k].hi <= 20
            /\ gap.pauses[k].lo <= gap.pauses[k].d
            /\ gap.pauses[k].d <= gap.pauses[k].hi

\* GitHub Trending made its second detail request after the first failed
C15_Witness ==
    /\ scraper = "GitHub Trending"
    /\ gap.prev
    /\ Len(fates) = 2
    /\ fates[1] \in DetailFailures

\* =================================================================
\* Summarizer._format_summary_by_source
\* (src/src/summarizer/summarizer.py), on strings
\* =================================================================

\* ---------------------------------------------------------------- bounds
MaxFreeWords == 2      \* words a summary has besides those it echoes

\* ------------------------------------------------- program constants
TitleHeadLen == 20     \* title.lower()[:20]

\* ---------------------------------------------------- str methods
LowerLetters ==
    {"a", "b", "c", "d", "e", "f", "g", "h", "i", "j", "k", "l", "m",
     "n", "o", "p", "q", "r", "s", "t", "u", "v", "w", "x", "y", "z"}

\* c.islower()
islower(c) == c \in LowerLetters

\* c.upper(), for the letters a summary begins with
UpperChar(c) ==
    CASE c = "a" -> "A"
      [] c = "b" -> "B"
      [] c = "c" -> "C"
      [] c = "d" -> "D"
      [] c = "e" -> "E"
      [] c = "g" -> "G"
      [] c = "p" -> "P"
      [] c = "r" -> "R"
      [] c = "t" -> "T"
      [] OTHER   -> c

\* s.startswith(prefix)
startswith(s, prefix) ==
    /\ Len(prefix) <= Len(s)
    /\ SubSeq(s, 1, Len(prefix)) = prefix

\* sub in s
contains(s, sub) ==
    \E i \in 0..(Len(s) - Len(sub)) : SubSeq(s, i + 1, i + Len(sub)) = sub

\* s[:n]
take(s, n) == SubSeq(s, 1, Min(n, Len(s)))

\* s.split()
RECURSIVE SplitFrom(_, _, _, _)
SplitFrom(s, i, cur, acc) ==
    LET done == IF cur = <<>> THEN acc ELSE Append(acc, cur) IN
    IF i > Len(s) THEN done
    ELSE IF s[i] \in Whitespace THEN SplitFrom(s, i + 1, <<>>, done)
    ELSE SplitFrom(s, i + 1, Append(cur, s[i]), acc)
split(s) == SplitFrom(s, 1, <<>>, <<>>)

\* ' '.join(words)
RECURSIVE join(_)
join(words) ==
    IF words = <<>> THEN <<>>
    ELSE IF Len(words) = 1 THEN words[1]
    ELSE words[1] \o <<" ">> \o join(Tail(words))

\* ------------------------------------------------ the string literals
L_github == <<"g", "i", "t", "h", "u", "b">>
L_paper == <<"p", "a", "p", "e", "r">>
L_research == <<"r", "e", "s", "e", "a", "r", "c", "h">>
L_news == <<"n", "e", "w", "s">>
L_hacker_news == <<"h", "a", "c", "k", "e", "r", " ", "n", "e", "w", "s">>
L_dev_to == <<"d", "e", "v", ".", "t", "o">>
L_this_repository == <<"t", "h", "i", "s", " ", "r", "e", "p", "o", "s", "i", "t", "o", "r", "y">>
L_the_repository == <<"t", "h", "e", " ", "r", "e", "p", "o", "s", "i", "t", "o", "r", "y">>
L_this == <<"t", "h", "i", "s">>
L_repository == <<"r", "e", "p", "o", "s", "i", "t", "o", "r", "y">>
L_repo == <<"r", "e", "p", "o">>
L_project == <<"p", "r", "o", "j", "e", "c", "t">>
L_this_paper == <<"t", "h", "i", "s", " ", "p", "a", "p", "e", "r">>
L_the_paper == <<"t", "h", "e", " ", "p", "a", "p", "e", "r">>
L_this_study == <<"t", "h", "i", "s", " ", "s", "t", "u", "d", "y">>
L_the_study == <<"t", "h", "e", " ", "s", "t", "u", "d", "y">>
L_study == <<"s", "t", "u", "d", "y">>
P_This_repository == <<"T", "h", "i", "s", " ", "r", "e", "p", "o", "s", "i", "t", "o", "r", "y", " ">>
P_This_paper == <<"T", "h", "i", "s", " ", "p", "a", "p", "e", "r", " ">>
P_This_paper_describes == <<"T", "h", "i", "s", " ", "p", "a", "p", "e", "r", " ", "d", "e", "s", "c", "r", "i", "b", "e", "s", " ">>
NoSummaryHead == <<"N", "o", " ", "s", "u", "m", "m", "a", "r", "y", " ", "a", "v", "a", "i", "l", "a", "b", "l", "e", " ", "f", "o", "r", " ", "t", "h", "i", "s", " ">>
NoSummaryTail == <<" ", "c", "o", "n", "t", "e", "n", "t", ".">>

\* --------------------------------------- _format_summary_by_source
\* a call returns the string s, or raises
Returned(s) == [raised |-> FALSE, s |-> s]
Raised(e) == [raised |-> TRUE, s |-> <<>>, e |-> e]

\* lines 297-302: the summary, stripped, gets the prefix "This repository "
NeedsRepositoryPrefixLowercaseOnly(summary) ==
    /\ ~startswith(lower(summary), L_this_repository)
    /\ ~startswith(lower(summary), L_the_repository)
    /\ islower(summary[1]) /\ ~startswith(lower(summary), L_this)
NeedsRepositoryPrefix(summary) ==
    /\ ~startswith(lower(summary), L_this_repository)
    /\ ~startswith(lower(summary), L_the_repository)
    /\ \/ islower(summary[1]) /\ ~startswith(lower(summary), L_this)
       \/ /\ ~contains(lower(summary), L_repository)
          /\ ~contains(lower(summary), L_repo)
          /\ ~contains(lower(summary), L_project)

\* lines 306-310: the prefix a summary of a paper gets
PaperPrefix(summary) ==
    IF \/ startswith(lower(summary), L_this_paper)
       \/ startswith(lower(summary), L_the_paper)
       \/ startswith(lower(summary), L_this_study)
       \/ startswith(lower(summary), L_the_study)
    THEN <<>>
    ELSE IF islower(summary[1]) THEN P_This_paper
    ELSE IF /\ ~contains(lower(summary), L_paper)
            /\ ~contains(lower(summary), L_study)
            /\ ~contains(lower(summary), L_research)
         THEN P_This_paper_describes
    ELSE <<>>

\* lines 318-322: the leading words of summary_words that are those of
\* title_words
RECURSIVE OverlapFrom(_, _, _)
OverlapFrom(summary_words, title_words, i) ==
    IF \/ i > Len(summary_words)
       \/ i > Len(title_words)
       \/ summary_words[i] # title_words[i]
    THEN i - 1
    ELSE OverlapFrom(summary_words, title_words, i + 1)
overlap_len(summary, title) ==
    OverlapFrom(split(lower(summary)), split(lower(title)), 1)

\* line 324: if overlap_len > 3
IsSignificantFromThree(n) == n >= 3
IsSignificant(n) == n > 3

\* lines 314-326: the summary of a news item, its echo of the title cut off
TrimEcho(summary, title) ==
    IF /\ startswith(lower(summary), take(lower(title), TitleHeadLen))
       /\ IsSignificant(overlap_len(summary, title))
    THEN LET words == split(summary) IN
         join(SubSeq(words, overlap_len(summary, title) + 1, Len(words)))
    ELSE summary

\* lines 329-333: first letter in upper case, final punctuation
Finalize(summary) ==
    LET cap == IF summary # <<>> /\ islower(summary[1])
               THEN <<UpperChar(summary[1])>> \o Tail(summary)
               ELSE summary
    IN  IF cap # <<>> /\ cap[Len(cap)] \notin {".", "!", "?"}
        THEN Append(cap, ".")
        ELSE cap

\* the branch of lines 296-326 the source selects
IsGithub(source) == contains(lower(source), L_github)
IsPaper(source) ==
    contains(lower(source), L_paper) \/ contains(lower(source), L_research)
IsNews(source) ==
    \/ contains(lower(source), L_news)
    \/ contains(lower(source), L_hacker_news)
    \/ contains(lower(source), L_dev_to)

\* lines 289-335
format_summary_by_source(source, summary, title) ==
    IF summary = <<>>
    THEN Returned(NoSummaryHead \o lower(source) \o NoSummaryTail)
    ELSE LET stripped == strip(summary) IN
         IF IsGithub(source) THEN
             IF \/ startswith(lower(stripped), L_this_repository)
                \/ startswith(lower(stripped), L_the_repository)
             THEN Returned(Finalize(stripped))
             ELSE IF stripped = <<>> THEN Raised("IndexError")  \* summary[0]
             ELSE IF NeedsRepositoryPrefix(stripped)
                  THEN Returned(Finalize(P_This_repository \o stripped))
             ELSE Returned(Finalize(stripped))
         ELSE IF IsPaper(source) THEN
             IF stripped = <<>> THEN Raised("IndexError")       \* summary[0]
             ELSE Returned(Finalize(PaperPrefix(stripped) \o stripped))
         ELSE IF IsNews(source) THEN
             Returned(Finalize(TrimEcho(stripped, title)))
         ELSE Returned(Finalize(stripped))

\* -------------------------------------------------------- the inputs
Src_GitHubTrending == <<"G", "i", "t", "H", "u", "b", " ", "T", "r", "e", "n", "d", "i", "n", "g">>
Src_HackerNews == <<"H", "a", "c", "k", "e", "r", " ", "N", "e", "w", "s">>
Src_DevTo == <<"D", "e", "v", ".", "t", "o">>
Src_Reddit == <<"R", "e", "d", "d", "i", "t">>
Src_ResearchPapers == <<"R", "e", "s", "e", "a", "r", "c", "h", " ", "P", "a", "p", "e", "r", "s">>
Src_GitHubNews == <<"G", "i", "t", "H", "u", "b", " ", "N", "e", "w", "s">>

\* the names of the configured sources, and two more: one of papers, and one
\* that is both a GitHub and a news source
FormatSources ==
    {Src_GitHubTrending, Src_HackerNews, Src_DevTo, Src_Reddit,
     Src_ResearchPapers, Src_GitHubNews}

\* the words of the titles
TitleShort == << <<"a">>, <<"b">>, <<"c">>, <<"d">>, <<"e">> >>
TitleLong == << <<"a", "l", "p", "h", "a">>, <<"b", "e", "t", "a">>, <<"g", "a", "m", "m", "a">>, <<"d", "e", "l", "t", "a">>, <<"e", "p", "s", "i", "l", "o", "n">> >>
TitleThree == << <<"a", "l", "p", "h", "a">>, <<"b", "e", "t", "a">>, <<"g", "a", "m", "m", "a">> >>

\* no title, five short words, five longer words, three words
TitleWords == {<<>>, TitleShort, TitleLong, TitleThree}

\* the words a summary is made of besides those of the title
FreeWords ==
    { <<"t", "h", "i", "s">>,
      <<"T", "h", "i", "s">>,
      <<"t", "h", "e">>,
      <<"r", "e", "p", "o", "s", "i", "t", "o", "r", "y">>,
      <<"p", "a", "p", "e", "r">>,
      <<"p", "r", "o", "v", "i", "d", "e", "s">>,
      <<"P", "r", "o", "v", "i", "d", "e", "s">>,
      <<"d", "o", "n", "e", ".">> }

\* the sequences of at most n words
WordsUpTo(n) == UNION { [1..k -> FreeWords] : k \in 0..n }

\* the summary of the GitHub scenario, and a summary of white space
ExampleSummary == <<"p", "r", "o", "v", "i", "d", "e", "s", " ", "a", " ", "f", "a", "s", "t", " ", "p", "a", "r", "s", "e", "r", " ", "f", "o", "r", " ", "X">>
BlankSummary == <<" ">>

\* what summarize returns instead of a summary (lines 86, 91 and 162, the
\* reason being the text of a timeout)
PlaceholderNotInitialized == <<"S", "u", "m", "m", "a", "r", "y", " ", "u", "n", "a", "v", "a", "i", "l", "a", "b", "l", "e", ":", " ", "l", "o", "c", "a", "l", " ", "s", "u", "m", "m", "a", "r", "i", "z", "e", "r", " ", "n", "o", "t", " ", "i", "n", "i", "t", "i", "a", "l", "i", "z", "e", "d">>
PlaceholderNoContent == <<"N", "o", " ", "c", "o", "n", "t", "e", "n", "t", " ", "a", "v", "a", "i", "l", "a", "b", "l", "e", " ", "f", "o", "r", " ", "s", "u", "m", "m", "a", "r", "i", "z", "a", "t", "i", "o", "n", ".">>
PlaceholderUnavailable == <<"S", "u", "m", "m", "a", "r", "y", " ", "u", "n", "a", "v", "a", "i", "l", "a", "b", "l", "e", ":", " ", "t", "i", "m", "e", "d", " ", "o", "u", "t">>
Placeholders ==
    {PlaceholderNotInitialized, PlaceholderNoContent, PlaceholderUnavailable}

\* the first letter of the first word in upper case
Capitalized(words) ==
    IF words = <<>> THEN words
    ELSE [words EXCEPT ![1] = <<UpperChar(words[1][1])>> \o Tail(words[1])]

FormatInit ==
    /\ DedupIdle /\ SummIdle /\ RunIdle /\ GatherIdle /\ ScrapeIdle
    /\ RestIdle
    /\ fsource \in FormatSources
    /\ \E tw \in TitleWords :
         /\ ftitle = join(tw)
         /\ \/ \E k \in 0..Len(tw), cap \in BOOLEAN, tail \in WordsUpTo(MaxFreeWords) :
                 LET echo == SubSeq(tw, 1, k) IN
                 fsummary = join((IF cap THEN Capitalized(echo) ELSE echo)
                                 \o tail)
            \/ fsummary \in {ExampleSummary, BlankSummary} \cup Placeholders
    /\ fout = <<>>
    /\ fpc = "call"

\* the call returns
F_Return ==
    /\ fpc = "call"
    /\ ~format_summary_by_source(fsource, fsummary, ftitle).raised
    /\ fout' = format_summary_by_source(fsource, fsummary, ftitle).s
    /\ fpc' = "returned"
    /\ UNCHANGED <<fsource, ftitle, fsummary>>
    /\ UNCHANGED notf

\* the call raises
F_Raise ==
    /\ fpc = "call"
    /\ format_summary_by_source(fsource, fsummary, ftitle).raised
    /\ fpc' = "raised"
    /\ UNCHANGED <<fsource, ftitle, fsummary, fout>>
    /\ UNCHANGED notf

FormatNext == F_Return \/ F_Raise

SpecFormat == FormatInit /\ [][FormatNext]_vars

\* ------------------------------ claims on _format_summary_by_source
\* out is summary with the prefix put before it, up to the final '.'
HasPrefix(out, prefix, summary) ==
    /\ startswith(out, prefix)
    /\ Len(out) >= Len(prefix) + Len(summary)

\* out has the given words, up to the case of letters and a final '.'
SameWords(out, words) ==
    LET ow == split(lower(out)) IN
    /\ Len(ow) = Len(words)
    /\ \A i \in 1..Len(words) :
         \/ ow[i] = lower(words[i])
         \/ i = Len(words) /\ ow[i] = Append(lower(words[i]), ".")

\* the leading words of the summary that are, case aside, the leading words
\* of the title
RECURSIVE EchoedWords(_, _)
EchoedWords(sw, tw) ==
    IF sw = <<>> \/ tw = <<>> \/ lower(Head(sw)) # lower(Head(tw)) THEN 0
    ELSE 1 + EchoedWords(Tail(sw), Tail(tw))

\* "This repository provides a fast parser for X."
ExampleFormatted == <<"T", "h", "i", "s", " ", "r", "e", "p", "o", "s", "i", "t", "o", "r", "y", " ", "p", "r", "o", "v", "i", "d", "e", "s", " ", "a", " ", "f", "a", "s", "t", " ", "p", "a", "r", "s", "e", "r", " ", "f", "o", "r", " ", "X", ".">>

\* C16 as stated: for a source whose name contains "github" and a summary
\* that is not empty, "This repository " is put before the summary exactly
\* when the summary does not start with "this repository" or "the
\* repository", mentions none of "repository", "repo", "project", and begins
\* with a lowercase letter; the summary of the scenario becomes "This
\* repository provides a fast parser for X.".
C16_PrefixWhenAllThree ==
    (fpc = "returned" /\ IsGithub(fsource) /\ strip(fsummary) # <<>>) =>
        LET summary == strip(fsummary)
            low == lower(summary)
            allThree ==
                /\ ~startswith(low, L_this_repository)
                /\ ~startswith(low, L_the_repository)
                /\ ~contains(low, L_repository)
                /\ ~contains(low, L_repo)
                /\ ~contains(low, L_project)
                /\ islower(summary[1])
        IN  /\ HasPrefix(fout, P_This_repository, summary) <=> allThree
            /\ (fsource = Src_GitHubTrending /\ fsummary = ExampleSummary)
                  => fout = ExampleFormatted

\* C16 amended: "This repository " is put before the summary exactly when
\* the summary does not start with "this repository" or "the repository" and
\* either begins with a lowercase letter without starting with "this", or
\* mentions none of "repository", "repo", "project"; the summary of the
\* scenario becomes "This repository provides a fast parser for X.".
C16_PrefixWhenEither ==
    (fpc = "returned" /\ IsGithub(fsource) /\ strip(fsummary) # <<>>) =>
        LET summary == strip(fsummary)
            low == lower(summary)
            either ==
                /\ ~startswith(low, L_this_repository)
                /\ ~startswith(low, L_the_repository)
                /\ \/ islower(summary[1]) /\ ~startswith(low, L_this)
                   \/ /\ ~contains(low, L_repository)
                      /\ ~contains(low, L_repo)
                      /\ ~contains(low, L_project)
        IN  /\ HasPrefix(fout, P_This_repository, summary) <=> either
            /\ (fsource = Src_GitHubTrending /\ fsummary = ExampleSummary)
                  => fout = ExampleFormatted

\* the summary of the scenario was formatted
C16_Witness ==
    /\ fpc = "returned"
    /\ fsource = Src_GitHubTrending
    /\ fsummary = ExampleSummary
    /\ fout = ExampleFormatted

\* C17 as stated: for a source whose name contains "news", "hacker news" or
\* "dev.to", a summary whose leading words are those of the title, case
\* aside, for four words or more loses exactly those words; with fewer than
\* four such words the words of the summary stay as they are.
C17_TrimWhenFourWordsEcho ==
    (fpc = "returned" /\ IsNews(fsource) /\ strip(fsummary) # <<>>) =>
        LET sw == split(strip(fsummary))
            n == EchoedWords(sw, split(ftitle))
        IN  IF n >= 4
            THEN SameWords(fout, SubSeq(sw, n + 1, Len(sw)))
            ELSE SameWords(fout, sw)

\* C17 amended: for such a source whose name contains none of "github",
\* "paper", "research", the summary loses its leading words that are those
\* of the title, case aside, exactly when there are four or more of them
\* and the summary, in lower case, starts with the first 20 characters of
\* the title in lower case; otherwise its words stay as they are.
C17_TrimWhenHeadEchoed ==
    (/\ fpc = "returned" /\ IsNews(fsource)
     /\ ~IsGithub(fsource) /\ ~IsPaper(fsource)
     /\ strip(fsummary) # <<>>) =>
        LET sw == split(strip(fsummary))
            n == EchoedWords(sw, split(ftitle))
            head == startswith(lower(strip(fsummary)),
                               SubSeq(lower(ftitle), 1,
                                      Min(20, Len(ftitle))))
        IN  IF n >= 4 /\ head
            THEN SameWords(fout, SubSeq(sw, n + 1, Len(sw)))
            ELSE SameWords(fout, sw)

\* a Hacker News summary that echoed four words of its title lost them
C17_Witness ==
    /\ fpc = "returned"
    /\ fsource = Src_HackerNews
    /\ ftitle = join(TitleLong)
    /\ EchoedWords(split(fsummary), TitleLong) = 4
    /\ Len(split(fsummary)) = 5
    /\ Len(split(fout)) = 1

\* C18 as stated: whatever the source, the title and the summary, the string
\* _format_summary_by_source returns is not empty, does not begin with a
\* lowercase letter and ends with '.', '!' or '?'.
C18_WellFormedOutput ==
    fpc = "returned" =>
        /\ fout # <<>>
        /\ ~islower(fout[1])
        /\ fout[Len(fout)] \in {".", "!", "?"}

\* C27 as stated: a placeholder or sentinel of summarize comes out of
\* _format_summary_by_source as it went in, whatever the source and the
\* title, but for a '.' appended when it does not end with one.
C27_PlaceholdersUntouched ==
    (fpc = "returned" /\ fsummary \in Placeholders) =>
        fout = IF fsummary[Len(fsummary)] = "." THEN fsummary
               ELSE fsummary \o <<".">>

\* =================================================================
\* The listing loops of the scrapers
\* (src/src/scraper/hacker_news_scraper.py, devto_scraper.py,
\*  github_trending_scraper.py)
\* =================================================================

\* ---------------------------------------------------------------- bounds
MaxRows == 3           \* most rows of a listing page
MaxLimit == 3          \* largest limit asked for

\* the functions with a listing loop and a limit
LimitFunctions ==
    {"HackerNewsScraper.scrape", "HackerNewsScraper.get_newest",
     "DevToScraper.scrape", "GitHubTrendingScraper.scrape"}

\* the loop ends on len(articles) >= limit, tested after an append
\* (hacker_news_scraper.py lines 105-106 and 180-181)
BreaksAtLimit(fn) ==
    fn \in {"HackerNewsScraper.scrape", "HackerNewsScraper.get_newest"}

\* the rows the for loop goes through: all of them, or rows[:limit]
\* (devto_scraper.py line 58, github_trending_scraper.py line 68)
LoopRows(fn, rows, n) ==
    IF BreaksAtLimit(fn) THEN rows
    ELSE SubSeq(rows, 1, Min(n, Len(rows)))

LimitInit ==
    /\ PipelineIdle /\ CascadeIdle /\ MainIdle /\ CleanIdle
    /\ lfn \in LimitFunctions
    /\ limit \in 0..MaxLimit
    /\ \E n \in 0..MaxRows : page_rows \in [1..n -> BOOLEAN]
    /\ todo = <<>>
    /\ pos = 0
    /\ scraped = <<>>
    /\ lpc = "request"

\* the listing page could not be fetched: return []
P_ListingFailed ==
    /\ lpc = "request"
    /\ lpc' = "returned"
    /\ UNCHANGED <<lfn, limit, page_rows, todo, pos, scraped>>
    /\ UNCHANGED notl

\* the listing page is parsed and the for loop begins
P_Listing ==
    /\ lpc = "request"
    /\ todo' = LoopRows(lfn, page_rows, limit)
    /\ lpc' = "loop"
    /\ UNCHANGED <<lfn, limit, page_rows, pos, scraped>>
    /\ UNCHANGED notl

\* a row without the title (or link) element: continue
P_Skip ==
    /\ lpc = "loop" /\ pos < Len(todo)
    /\ ~todo[pos + 1]
    /\ pos' = pos + 1
    /\ UNCHANGED <<lfn, limit, page_rows, todo, scraped, lpc>>
    /\ UNCHANGED notl

\* a row is appended; the Hacker News loops then test the limit and break
P_Append ==
    /\ lpc = "loop" /\ pos < Len(todo)
    /\ todo[pos + 1]
    /\ scraped' = append(scraped, pos + 1)
    /\ pos' = pos + 1
    /\ lpc' = IF BreaksAtLimit(lfn) /\ Len(scraped) + 1 >= limit
              THEN "after" ELSE "loop"
    /\ UNCHANGED <<lfn, limit, page_rows, todo>>
    /\ UNCHANGED notl

\* the rows are exhausted
P_Exhausted ==
    /\ lpc = "loop" /\ pos = Len(todo)
    /\ lpc' = "after"
    /\ UNCHANGED <<lfn, limit, page_rows, todo, pos, scraped>>
    /\ UNCHANGED notl

\* the function returns the items, each with or without fetched content
P_Return ==
    /\ lpc = "after"
    /\ lpc' = "returned"
    /\ UNCHANGED <<lfn, limit, page_rows, todo, pos, scraped>>
    /\ UNCHANGED notl

LimitNext ==
    \/ P_ListingFailed \/ P_Listing \/ P_Skip \/ P_Append \/ P_Exhausted
    \/ P_Return

SpecLimit == LimitInit /\ [][LimitNext]_vars

\* ------------------------------------------ claims on the listing loops
\* C28 as stated: whatever the limit (0 included) and the listing page, each
\* of the four functions returns at most limit items.
C28_AtMostLimit ==
    lpc = "returned" => Len(scraped) <= limit

\* =================================================================
\* The selector cascades of the scrapers
\* (src/src/scraper/devto_scraper.py, hacker_news_scraper.py,
\*  reddit_scraper.py, github_trending_scraper.py)
\* =================================================================

\* ---------------------------------------------------------------- bounds
MaxSelectors == 3      \* most candidate selectors of a cascade

\* ------------------------------------------------- program constants
MinContentLen == 100   \* len(content.get_text(strip=True)) > 100

\* the cascades:
\*   "rows"     soup.select(a) or soup.select(b) or ...   (listing rows)
\*   "anchor"   item.select_one(a) or item.select_one(b) or ...
\*   "article_content"  the for loop over content_selectors of
\*              fetch_article_content (Hacker News, Reddit)
\*   "readme"   soup.select_one('#readme article') or ...  (the content of
\*              a repository page)
Cascades == {"rows", "anchor", "article_content", "readme"}

\* the cascades that look for the container of a page's content
ContentCascades == {"article_content", "readme"}

\* what a selector matches: nothing, or elements, the first of which has a
\* text of chars characters
NoMatch == [found |-> FALSE, chars |-> 0]
Match(chars) == [found |-> TRUE, chars |-> chars]

\* the texts that matter: none, as long as the threshold, and longer
MatchesOf(c) ==
    IF c \in ContentCascades
    THEN {NoMatch, Match(0), Match(MinContentLen), Match(MinContentLen + 1)}
    ELSE {NoMatch, Match(1)}

\* the candidate wins: a non-empty list, an element, or in
\* fetch_article_content an element with more than 100 characters of text
QualifiesAnyLength(c, m) == m.found
Qualifies(c, m) ==
    /\ m.found
    /\ c = "article_content" => m.chars > MinContentLen

\* what a cascade ends with
Selected(k) == [from |-> "selector", k |-> k]
Body == [from |-> "body"]
Nothing == [from |-> "nothing"]

CascadeInit ==
    /\ PipelineIdle /\ LimitIdle /\ MainIdle /\ CleanIdle
    /\ cascade \in Cascades
    /\ \E n \in 1..MaxSelectors : matches \in [1..n -> MatchesOf(cascade)]
    /\ ck = 0
    /\ chosen = Nothing
    /\ kpc = "try"

\* the next candidate wins
K_Take ==
    /\ kpc = "try" /\ ck < Len(matches)
    /\ Qualifies(cascade, matches[ck + 1])
    /\ chosen' = Selected(ck + 1)
    /\ kpc' = "done"
    /\ UNCHANGED <<cascade, matches, ck>>
    /\ UNCHANGED notk

\* the next candidate is passed over
K_Pass ==
    /\ kpc = "try" /\ ck < Len(matches)
    /\ ~Qualifies(cascade, matches[ck + 1])
    /\ ck' = ck + 1
    /\ UNCHANGED <<cascade, matches, chosen, kpc>>
    /\ UNCHANGED notk

\* fetch_article_content: if not main_content: main_content = soup.body
K_Body ==
    /\ kpc = "try" /\ ck = Len(matches)
    /\ cascade = "article_content"
    /\ chosen' = Body
    /\ kpc' = "done"
    /\ UNCHANGED <<cascade, matches, ck>>
    /\ UNCHANGED notk

\* the other cascades end with an empty list or None: the scrape returns
\* [], the row is skipped, the repository's content is ''
K_Nothing ==
    /\ kpc = "try" /\ ck = Len(matches)
    /\ cascade # "article_content"
    /\ chosen' = Nothing
    /\ kpc' = "done"
    /\ UNCHANGED <<cascade, matches, ck>>
    /\ UNCHANGED notk

CascadeNext == K_Take \/ K_Pass \/ K_Body \/ K_Nothing

SpecCascade == CascadeInit /\ [][CascadeNext]_vars

\* ------------------------------------------------ claims on the cascades
\* the candidates that match something, and those whose match has a text
\* over the threshold
Found == {k \in 1..Len(matches) : matches[k].found}
LongEnough == {k \in Found : matches[k].chars > MinContentLen}

\* the least of a non-empty set of numbers
Least(S) == CHOOSE k \in S : \A j \in S : k <= j

\* C24 as stated: every cascade ends with the match of the earliest
\* candidate that qualifies (it matches something and, in a cascade for the
\* content container, its text is longer than 100 characters), and a
\* cascade for the content container in which none qualifies ends with the
\* body of the page.
C24_EarliestQualifying ==
    kpc = "done" =>
        LET Q == IF cascade \in ContentCascades THEN LongEnough ELSE Found IN
        IF Q # {} THEN chosen = Selected(Least(Q))
        ELSE cascade \in ContentCascades => chosen = Body

\* C24, amended: every cascade ends with the match of the earliest
\* candidate that qualifies. In fetch_article_content (Hacker News, Reddit)
\* a candidate qualifies when it matches an element whose text is longer
\* than 100 characters, and the body of the page is used when none does.
\* In every other cascade, the one for the README of a repository page
\* included, a candidate qualifies when it matches anything, whatever the
\* length of its text, and the cascade ends with nothing when none does.
C24_EarliestQualifyingPerCascade ==
    kpc = "done" =>
        LET Q == IF cascade = "article_content" THEN LongEnough ELSE Found IN
        IF Q # {} THEN chosen = Selected(Least(Q))
        ELSE chosen = IF cascade = "article_content" THEN Body ELSE Nothing

\* fetch_article_content passed over a first container of 100 characters
\* and took the second, of 101
C24_Witness ==
    /\ kpc = "done" /\ cascade = "article_content"
    /\ Len(matches) = 3
    /\ matches[1] = Match(MinContentLen)
    /\ matches[2] = Match(MinContentLen + 1)
    /\ chosen = Selected(2)

\* =================================================================
\* main() and TechNewsConfiguration (src/src/main.py)
\* =================================================================

\* the settings of the environment that the constructor and _validate_config
\* test; SEND_EMAIL is "true" unless it is set to something else
EnvSettings ==
    {"OPENAI_API_KEY", "SMTP_EMAIL", "SMTP_PASSWORD", "EMAIL_RECIPIENTS",
     "SEND_EMAIL=false"}

\* a call of logger.warning in _validate_config: the name logger is looked
\* up in the module's globals when the call runs
Warning(w, next) ==
    IF logger_bound
    THEN /\ warnings' = Append(warnings, w)
         /\ mpc' = next
         /\ mexc' = mexc
    ELSE /\ warnings' = warnings
         /\ mpc' = "raised"
         /\ mexc' = "NameError"

MainInit ==
    /\ PipelineIdle /\ LimitIdle /\ CascadeIdle /\ CleanIdle
    /\ env \in SUBSET EnvSettings
    /\ logger_bound = FALSE          \* the module binds no logger
    /\ should_send_email = FALSE
    /\ warnings = <<>>
    /\ mexc = "none"
    /\ mpc = "construct"

\* line 253, lines 39-64 of the constructor
M_Construct ==
    /\ mpc = "construct"
    /\ should_send_email' = ("SEND_EMAIL=false" \notin env)
    /\ mpc' = "validate_key"
    /\ UNCHANGED <<env, logger_bound, warnings, mexc>>
    /\ UNCHANGED notm

\* lines 77-78, the key is set
M_KeyPresent ==
    /\ mpc = "validate_key" /\ "OPENAI_API_KEY" \in env
    /\ mpc' = "validate_email"
    /\ UNCHANGED <<env, logger_bound, should_send_email, warnings, mexc>>
    /\ UNCHANGED notm

\* lines 77-78, the key is missing
M_KeyMissing ==
    /\ mpc = "validate_key" /\ "OPENAI_API_KEY" \notin env
    /\ Warning("OpenAI API key not found", "validate_email")
    /\ UNCHANGED <<env, logger_bound, should_send_email>>
    /\ UNCHANGED notm

\* line 80, e-mail is disabled
M_EmailDisabled ==
    /\ mpc = "validate_email" /\ ~should_send_email
    /\ mpc' = "configure_logging"
    /\ UNCHANGED <<env, logger_bound, should_send_email, warnings, mexc>>
    /\ UNCHANGED notm

\* line 80, e-mail is enabled
M_EmailEnabled ==
    /\ mpc = "validate_email" /\ should_send_email
    /\ mpc' = "validate_smtp"
    /\ UNCHANGED <<env, logger_bound, should_send_email, warnings, mexc>>
    /\ UNCHANGED notm

\* lines 81-83, the credentials are set
M_SmtpPresent ==
    /\ mpc = "validate_smtp"
    /\ {"SMTP_EMAIL", "SMTP_PASSWORD"} \subseteq env
    /\ mpc' = "validate_recipients"
    /\ UNCHANGED <<env, logger_bound, should_send_email, warnings, mexc>>
    /\ UNCHANGED notm

\* lines 81-83, a credential is missing
M_SmtpMissing ==
    /\ mpc = "validate_smtp"
    /\ ~({"SMTP_EMAIL", "SMTP_PASSWORD"} \subseteq env)
    /\ Warning("SMTP credentials are missing", "validate_recipients")
    /\ should_send_email' = IF logger_bound THEN FALSE    \* after the warning
                            ELSE should_send_email
    /\ UNCHANGED <<env, logger_bound>>
    /\ UNCHANGED notm

\* lines 85-87, there are recipients
M_RecipientsPresent ==
    /\ mpc = "validate_recipients" /\ "EMAIL_RECIPIENTS" \in env
    /\ mpc' = "configure_logging"
    /\ UNCHANGED <<env, logger_bound, should_send_email, warnings, mexc>>
    /\ UNCHANGED notm

\* lines 85-87, there are none
M_RecipientsMissing ==
    /\ mpc = "validate_recipients" /\ "EMAIL_RECIPIENTS" \notin env
    /\ Warning("no recipients are configured", "configure_logging")
    /\ should_send_email' = IF logger_bound THEN FALSE    \* after the warning
                            ELSE should_send_email
    /\ UNCHANGED <<env, logger_bound>>
    /\ UNCHANGED notm

\* lines 256-261
M_ConfigureLogging ==
    /\ mpc = "configure_logging"
    /\ mpc' = "bind_logger"
    /\ UNCHANGED <<env, logger_bound, should_send_email, warnings, mexc>>
    /\ UNCHANGED notm

\* lines 264-266: global logger; logger = logging.getLogger(__name__)
M_BindLogger ==
    /\ mpc = "bind_logger"
    /\ logger_bound' = TRUE
    /\ mpc' = "run"
    /\ UNCHANGED <<env, should_send_email, warnings, mexc>>
    /\ UNCHANGED notm

\* lines 269-270: the curator is created and run
M_Run ==
    /\ mpc = "run"
    /\ mpc' = "done"
    /\ UNCHANGED <<env, logger_bound, should_send_email, warnings, mexc>>
    /\ UNCHANGED notm

MainNext ==
    \/ M_Construct \/ M_KeyPresent \/ M_KeyMissing
    \/ M_EmailDisabled \/ M_EmailEnabled
    \/ M_SmtpPresent \/ M_SmtpMissing
    \/ M_RecipientsPresent \/ M_RecipientsMissing
    \/ M_ConfigureLogging \/ M_BindLogger \/ M_Run

SpecMain == MainInit /\ [][MainNext]_vars

\* ------------------------------------------------------ claims on main
\* C29 as stated: the name logger is bound before anything logs through it:
\* nothing is raised while the configuration is built, whatever settings
\* are missing, and the run is reached, with e-mail switched off when the
\* credentials or the recipients are missing.
C29_LoggerBoundBeforeUse ==
    /\ mexc = "none"
    /\ mpc \in {"run", "done"} =>
         /\ logger_bound
         /\ ("OPENAI_API_KEY" \notin env) => warnings # <<>>
         /\ ~({"SMTP_EMAIL", "SMTP_PASSWORD", "EMAIL_RECIPIENTS"} \subseteq env)
              => ~should_send_email

\* =================================================================
\* Summarizer.clean_text (src/src/summarizer/summarizer.py)
\* =================================================================

\* ---------------------------------------------------------------- bounds
MaxPieces == 4         \* most pieces a text is put together from

\* text.split('\n'): the lines of s from position i on, cur being the line
\* begun
RECURSIVE LinesFrom(_, _, _)
LinesFrom(s, i, cur) ==
    IF i > Len(s) THEN <<cur>>
    ELSE IF s[i] = "\n" THEN <<cur>> \o LinesFrom(s, i + 1, <<>>)
    ELSE LinesFrom(s, i + 1, Append(cur, s[i]))

\* line.strip() for line in lines if line.strip()
RECURSIVE StrippedNonBlank(_)
StrippedNonBlank(lines) ==
    IF lines = <<>> THEN <<>>
    ELSE IF strip(Head(lines)) = <<>> THEN StrippedNonBlank(Tail(lines))
    ELSE <<strip(Head(lines))>> \o StrippedNonBlank(Tail(lines))

\* s.replace(old, new): the occurrences of old, found from the left and not
\* overlapping
RECURSIVE ReplaceFrom(_, _, _, _)
ReplaceFrom(s, i, old, new) ==
    IF i > Len(s) THEN <<>>
    ELSE IF i + Len(old) - 1 <= Len(s) /\ SubSeq(s, i, i + Len(old) - 1) = old
         THEN new \o ReplaceFrom(s, i + Len(old), old, new)
    ELSE <<s[i]>> \o ReplaceFrom(s, i + 1, old, new)
replace(s, old, new) == ReplaceFrom(s, 1, old, new)

\* lines 61-67: the replacements, in the order of the dict
replacements ==
    << <<<<"&", "a", "m", "p", ";">>, <<"&">> >>,
       <<<<"&", "l", "t", ";">>, <<"<">> >>,
       <<<<"&", "g", "t", ";">>, <<">">> >>,
       <<<<"&", "q", "u", "o", "t", ";">>, <<"\"">> >>,
       <<<<"&", "#", "3", "9", ";">>, <<"'">> >> >>

\* lines 69-70: for old, new in replacements.items(), from the k-th on
RECURSIVE ReplaceAllFrom(_, _)
ReplaceAllFrom(s, k) ==
    IF k > Len(replacements) THEN s
    ELSE ReplaceAllFrom(replace(s, replacements[k][1], replacements[k][2]),
                        k + 1)

\* lines 51-72
clean_text(text) ==
    IF text = <<>> THEN <<>>
    ELSE LET joined == join(StrippedNonBlank(LinesFrom(text, 1, <<>>)))
             cleaned == join(split(joined))
         IN ReplaceAllFrom(cleaned, 1)

\* -------------------------------------------------------- the inputs
\* the pieces of the texts: white space, a letter, entities and the ends of
\* entities
Pieces ==
    { <<" ">>, <<"\n">>, <<"x">>,
      <<"&", "a", "m", "p", ";">>, <<"a", "m", "p", ";">>,
      <<"l", "t", ";">>, <<"&", "g", "t", ";">> }

RECURSIVE Concat(_)
Concat(ps) == IF ps = <<>> THEN <<>> ELSE Head(ps) \o Concat(Tail(ps))

CleanInit ==
    /\ PipelineIdle /\ LimitIdle /\ CascadeIdle /\ MainIdle
    /\ \E n \in 0..MaxPieces : \E ps \in [1..n -> Pieces] : cin = Concat(ps)
    /\ cout1 = <<>>
    /\ cout2 = <<>>
    /\ cpc = "first"

\* clean_text(x)
C_Clean ==
    /\ cpc = "first"
    /\ cout1' = clean_text(cin)
    /\ cpc' = "second"
    /\ UNCHANGED <<cin, cout2>>
    /\ UNCHANGED notc

\* clean_text(clean_text(x))
C_CleanAgain ==
    /\ cpc = "second"
    /\ cout2' = clean_text(cout1)
    /\ cpc' = "done"
    /\ UNCHANGED <<cin, cout1>>
    /\ UNCHANGED notc

CleanNext == C_Clean \/ C_CleanAgain

SpecClean == CleanInit /\ [][CleanNext]_vars

\* ------------------------------------------------- claims on clean_text
\* C30 as stated: cleaning a cleaned text changes nothing, also for texts
\* with nested entity encodings, and a cleaned text neither begins nor ends
\* with white space nor holds two white-space characters in a row.
C30_CleanIdempotent ==
    /\ cpc = "done" => cout2 = cout1
    /\ cpc \in {"second", "done"} =>
         /\ cout1 # <<>> =>
              cout1[1] \notin Whitespace /\ cout1[Len(cout1)] \notin Whitespace
         /\ \A i \in 1..(Len(cout1) - 1) :
              ~(cout1[i] \in Whitespace /\ cout1[i + 1] \in Whitespace)

====
